---- MODULE Spec2Model ----
(***************************************************************************)
(* saamt-rs: the SFX archive engine (saamt-core/src/sfx) and the sfx        *)
(* command of the CLI that drives it.                                       *)
(*                                                                          *)
(* Representation.                                                          *)
(*  - A u32 field is held as an integer.  TLC's integers are 32-bit signed, *)
(*    so a u32 bit pattern with the top bit set is held as the negative     *)
(*    integer with the same 32 bits: a negative model value x stands for    *)
(*    the unsigned value 2^32 + x.  Such values are read from a lookup      *)
(*    file or arise from a subtraction that wraps in a build without        *)
(*    overflow checks.                                                      *)
(*  - A serialised bank header (4804 bytes) is held as the record of what   *)
(*    the bytes say: num_sounds, padding, the first num_sounds sound        *)
(*    entries, and `slack`, which stands for the bytes of the unused        *)
(*    entry slots (0: all zero, otherwise: some byte is not zero).          *)
(*  - A file name is the sequence of its characters.                        *)
(*  - An archive file is held as the number of bytes before its first bank  *)
(*    and its banks in file order; the lookup file that comes with it says  *)
(*    where they lie.                                                       *)
(***************************************************************************)
EXTENDS Integers, Sequences, FiniteSets, TLC

(***************************************************************************)
(* Bounds of the model.                                                     *)
(***************************************************************************)
MaxBanks == 2
MaxSounds == 2

(***************************************************************************)
(* Program constants.                                                       *)
(***************************************************************************)
MAX_SOUND_ENTRIES == 400
SoundEntry_SIZE == 12
BankHeader_SIZE == 4 + (MAX_SOUND_ENTRIES * SoundEntry_SIZE)

(***************************************************************************)
(* Small helpers over sequences.                                            *)
(***************************************************************************)
Range(s) == {s[i] : i \in DOMAIN s}

RECURSIVE SumSeq(_)
SumSeq(s) == IF s = <<>> THEN 0 ELSE s[1] + SumSeq(Tail(s))

Prefix(s, n) == SubSeq(s, 1, n)

\* Option<T>: None is the empty sequence, Some(x) the one-element sequence.
None == <<>>
Some(x) == <<x>>

(***************************************************************************)
(* PakNames (config/paknames).                                              *)
(***************************************************************************)
LowerChars == <<"a","b","c","d","e","f","g","h","i","j","k","l","m",
                "n","o","p","q","r","s","t","u","v","w","x","y","z">>
UpperChars == <<"A","B","C","D","E","F","G","H","I","J","K","L","M",
                "N","O","P","Q","R","S","T","U","V","W","X","Y","Z">>

to_uppercase_char(c) ==
    IF \E i \in DOMAIN LowerChars : LowerChars[i] = c
    THEN UpperChars[CHOOSE i \in DOMAIN LowerChars : LowerChars[i] = c]
    ELSE c

to_uppercase(name) == [i \in DOMAIN name |-> to_uppercase_char(name[i])]

\* Stripping one trailing character only.
trim_end_once(name, chars) ==
    IF name # <<>> /\ name[Len(name)] \in chars
    THEN Prefix(name, Len(name) - 1)
    ELSE name

RECURSIVE trim_end_matches(_, _)
trim_end_matches(name, chars) ==
    IF name # <<>> /\ name[Len(name)] \in chars
    THEN trim_end_matches(Prefix(name, Len(name) - 1), chars)
    ELSE name

fix_ps2_name(name) == to_uppercase(trim_end_matches(name, {"0", "1", "2"}))

SFX_DEFAULT_PAK_NAMES ==
    << <<"F","E","E","T">>,
       <<"G","E","N","R","L">>,
       <<"P","A","I","N","_","A">>,
       <<"S","C","R","I","P","T">>,
       <<"S","P","C","_","E","A">>,
       <<"S","P","C","_","F","A">>,
       <<"S","P","C","_","G","A">>,
       <<"S","P","C","_","N","A">>,
       <<"S","P","C","_","P","A">> >>

\* position() counts from 0.
get_pak_idx_from_name(pak_names, name) ==
    IF name = <<>> THEN None
    ELSE LET fixed == fix_ps2_name(name)
             hits == {i \in DOMAIN pak_names : pak_names[i] = fixed}
         IN IF hits = {} THEN None
            ELSE Some((CHOOSE i \in hits : \A j \in hits : i <= j) - 1)

\* The empty name is kept in the list; "an empty name isn't valid".
STREAM_DEFAULT_PAK_NAMES ==
    << <<"A","A">>, <<"A","D","V","E","R","T","S">>, <<>>,
       <<"A","M","B","I","E","N","C","E">>, <<"B","E","A","T","S">>, <<"C","H">>,
       <<"C","O">>, <<"C","R">>, <<"C","U","T","S","C","E","N","E">>, <<"D","S">>,
       <<"H","C">>, <<"M","H">>, <<"M","R">>, <<"N","J">>, <<"R","E">>, <<"R","G">>,
       <<"T","K">> >>

\* PakNames::sfx() and PakNames::stream().
PakNames_sfx == SFX_DEFAULT_PAK_NAMES
PakNames_stream == STREAM_DEFAULT_PAK_NAMES

\* A file is a sequence of bytes: characters, and "NUL" for the byte 0.
\* #[br(align_after = N)]: the alignment of the name records of the two files.
SfxPakName_align == 52
StreamPakName_align == 16

\* Position of the first NUL after position pos (from 0) of file, 0 if none.
find_nul(file, pos) ==
    LET nuls == {i \in (pos + 1)..Len(file) : file[i] = "NUL"}
    IN IF nuls = {} THEN 0 ELSE CHOOSE i \in nuls : \A j \in nuls : i <= j

RECURSIVE until_eof(_, _, _)
\* The names read from position pos on: a NullString runs to the next NUL and
\* the cursor is then moved up to a multiple of align; reading ends at the
\* first read that meets the end of the file.  Names are kept as they are read.
until_eof(file, pos, align) ==
    LET nul == find_nul(file, pos)
    IN IF nul = 0 THEN <<>>
       ELSE <<SubSeq(file, pos + 1, nul - 1)>>
            \o until_eof(file, ((nul + align - 1) \div align) * align, align)

PakNames_sfx_from_reader(file) == until_eof(file, 0, SfxPakName_align)
PakNames_stream_from_reader(file) == until_eof(file, 0, StreamPakName_align)

(***************************************************************************)
(* LookUpTable (config/lookuptable).  Table positions count from 1 in the   *)
(* model; the code's index i is position i + 1.                             *)
(***************************************************************************)
count_entries_matching_pak_idx(table, idx) ==
    Cardinality({i \in DOMAIN table : table[i].index = idx})

RECURSIVE matching_entries(_, _)
\* The (position, entry) pairs of the entries of pak index idx, in table order.
matching_entries(table, idx) ==
    IF table = <<>> THEN <<>>
    ELSE LET n == Len(table)
             front == matching_entries(Prefix(table, n - 1), idx)
         IN IF table[n].index = idx
            THEN Append(front, <<n, table[n]>>)
            ELSE front

(***************************************************************************)
(* SfxManager::get_sorted_lookup_table (sfx/mod.rs).                        *)
(* An element of `lookup` there is (i1, (i2, e)): i1 the table position,    *)
(* i2 the dense enumeration value, e the entry; here [i1, i2, e].           *)
(***************************************************************************)
\* a + b does not fit in a u32.
u32_add_overflows(a, b) ==
    \/ a < 0 /\ b < 0
    \/ a < 0 /\ b >= 0 /\ a + b >= 0
    \/ a >= 0 /\ b < 0 /\ a + b >= 0

\* a <= b as u32 values.
u32_le(a, b) == IF (a < 0) = (b < 0) THEN a <= b ELSE a >= 0

\* (e0.offset + e0.length) as usize + BankHeader::SIZE == e1.offset as usize,
\* the sum taken in u32 (wrapped) and the rest in usize, where nothing wraps.
BackToBack(e0, e1) ==
    LET sum == e0.offset + e0.length
    IN /\ (sum < 0) = (e1.offset < 0)
       /\ sum + BankHeader_SIZE = e1.offset

\* windows(2).all(..): "yes", "no", or "panic" when the sum of the first pair
\* that is looked at and does not fit a u32 is taken in a debug build.
is_banks_sorted(bld, lookup) ==
    LET pairs == 1..(Len(lookup) - 1)
        overflows(k) == u32_add_overflows(lookup[k].e.offset, lookup[k].e.length)
        stops(k) == (bld = "debug" /\ overflows(k))
                        \/ ~BackToBack(lookup[k].e, lookup[k + 1].e)
        stopping == {k \in pairs : stops(k)}
    IN IF stopping = {} THEN "yes"
       ELSE LET k == CHOOSE x \in stopping : \A y \in stopping : x <= y
            IN IF bld = "debug" /\ overflows(k) THEN "panic" ELSE "no"

\* An enumeration that keeps the dense value in place of the table position.
enumerate_matching_dense(table, idx) ==
    LET m == matching_entries(table, idx)
    IN [k \in DOMAIN m |-> [i1 |-> k, i2 |-> k - 1, e |-> m[k][2]]]

enumerate_matching(table, idx) ==
    LET m == matching_entries(table, idx)
    IN [k \in DOMAIN m |-> [i1 |-> m[k][1], i2 |-> k - 1, e |-> m[k][2]]]

RECURSIVE InsertByOffset(_, _)
\* x goes after every element whose offset is not larger (the sort is stable).
InsertByOffset(sorted, x) ==
    IF sorted = <<>> THEN <<x>>
    ELSE IF u32_le(sorted[Len(sorted)].e.offset, x.e.offset)
         THEN Append(sorted, x)
         ELSE Append(InsertByOffset(Prefix(sorted, Len(sorted) - 1), x),
                     sorted[Len(sorted)])

RECURSIVE sort_by_offset(_)
sort_by_offset(lookup) ==
    IF lookup = <<>> THEN <<>>
    ELSE InsertByOffset(sort_by_offset(Prefix(lookup, Len(lookup) - 1)),
                        lookup[Len(lookup)])

\* The result: err is "" on success and "panic" for a panic; lookup holds the (i2, e) pairs and
\* indexes the i1 values, position by position.
get_sorted_lookup_table(bld, table, pak_names, basename) ==
    LET lookup_idx == get_pak_idx_from_name(pak_names, basename)
        fail(err) == [err |-> err, lookup |-> <<>>, indexes |-> <<>>, sorted |-> FALSE]
    IN IF lookup_idx = None THEN fail("CantFindInLookupTable")
       ELSE IF count_entries_matching_pak_idx(table, lookup_idx[1]) = 0
            THEN fail("NoEntryMatch")
       ELSE LET lookup == enumerate_matching(table, lookup_idx[1])
                sortedl == sort_by_offset(lookup)
                unzip(l, srt) ==
                    [err |-> "",
                     lookup |-> [k \in DOMAIN l |-> [index |-> l[k].i2, e |-> l[k].e]],
                     indexes |-> [k \in DOMAIN l |-> l[k].i1],
                     sorted |-> srt]
                first == is_banks_sorted(bld, lookup)
                second == is_banks_sorted(bld, sortedl)
            IN IF first = "panic" THEN fail("panic")
               ELSE IF first = "yes" THEN unzip(lookup, FALSE)
               ELSE IF second = "panic" THEN fail("panic")
               ELSE IF second = "yes" THEN unzip(sortedl, TRUE)
               ELSE fail("UnsortedSfxBanks")

(***************************************************************************)
(* BankHeader and SoundEntry (sfx/structures.rs).                           *)
(***************************************************************************)
RECURSIVE generate_sizes(_, _)
\* Each entry gets the gap to the next entry's offset, the last one the gap
\* to the end of the payload.
generate_sizes(sound_entries, len) ==
    IF sound_entries = <<>> THEN <<>>
    ELSE LET n == Len(sound_entries)
             cur == sound_entries[n]
             with_size(sz) ==
                 [offset |-> cur.offset, loop_offset |-> cur.loop_offset,
                  sample_rate |-> cur.sample_rate, headroom |-> cur.headroom,
                  size |-> sz]
         IN Append(generate_sizes(Prefix(sound_entries, n - 1), cur.offset),
                   with_size(len - cur.offset))

\* BankHeader::read_args: the parse of a serialised header; Err when
\* num_sounds is above MAX_SOUND_ENTRIES.
BankHeader_read_ok(disk_header) == disk_header.num_sounds <= MAX_SOUND_ENTRIES

\* A parse that reads one sound entry less than num_sounds.
BankHeader_read_one_less(disk_header, buf_len) ==
    [padding |-> disk_header.padding,
     sound_entries |->
        generate_sizes(Prefix(disk_header.sound_entries, Len(disk_header.sound_entries) - 1),
                       buf_len)]

BankHeader_read(disk_header, buf_len) ==
    [padding |-> disk_header.padding,
     sound_entries |-> generate_sizes(disk_header.sound_entries, buf_len)]

\* BankHeader::write: num_sounds is calculated from the entries, the size of
\* an entry is not written, the unused slots are padded with zero bytes.
\* A header writer that writes zeros for the padding field.
BankHeader_write_zero_padding(header) ==
    [num_sounds |-> Len(header.sound_entries),
     padding |-> 0,
     sound_entries |-> [j \in DOMAIN header.sound_entries |->
                           [offset |-> header.sound_entries[j].offset,
                            loop_offset |-> header.sound_entries[j].loop_offset,
                            sample_rate |-> header.sound_entries[j].sample_rate,
                            headroom |-> header.sound_entries[j].headroom]],
     slack |-> 0]

BankHeader_write(header) ==
    [num_sounds |-> Len(header.sound_entries),
     padding |-> header.padding,
     sound_entries |->
        [k \in DOMAIN header.sound_entries |->
            [offset |-> header.sound_entries[k].offset,
             loop_offset |-> header.sound_entries[k].loop_offset,
             sample_rate |-> header.sound_entries[k].sample_rate,
             headroom |-> header.sound_entries[k].headroom]],
     slack |-> 0]

(***************************************************************************)
(* Bank (sfx/bank.rs).  A file that holds one bank, or any other bytes, is  *)
(* [len, header, bytes]: len its length in bytes; a file too short to hold  *)
(* a header has the header NoHeader and no payload bytes.                   *)
(***************************************************************************)
NoHeader == [num_sounds |-> 0 - 1, padding |-> 0, sound_entries |-> <<>>, slack |-> 0]

Sizes(bank) == [j \in DOMAIN bank.header.sound_entries |-> bank.header.sound_entries[j].size]

Bank_len(bank) == Len(bank.bytes) + BankHeader_SIZE

\* Bank::to_writer: header, then the payload bytes.
Bank_to_writer(bank) ==
    [len |-> BankHeader_SIZE + Len(bank.bytes),
     header |-> BankHeader_write(bank.header),
     bytes |-> bank.bytes]

(***************************************************************************)
(* The state.                                                               *)
(***************************************************************************)
VARIABLES
    build,          \* "debug": arithmetic overflow panics; "release": it wraps
    run,            \* 1 in the first invocation of the tool, 2 in a second one
    lookup_file,    \* the lookup file on disk (BankLkup.dat)
    archive_name,   \* base name of the archive file, without extension
    archive,        \* the archive file: the bytes before its first bank (lead) and
                    \* its banks, in file order
    lookup_table,   \* SfxManager.lookup_table
    pc,             \* where the run is
    err,            \* the Error the run ended with ("" when none)
    warns,          \* the warnings logged so far
    lookup,         \* Banks.lookup / BanksIter.lookup: (index, entry) pairs
    lookup_idx,     \* BanksIter.lookup_idx
    indexes,        \* SfxArchive.indexes
    reader,         \* BanksIter.reader: banks of the file read so far, -1 once
                    \* a failed read has left the cursor inside a bank
    item,           \* what the last BanksIter::next returned
    items,          \* the kinds of all items yielded so far, in order
    dir,            \* the directory of .bnk files: bank index -> file
    folders,        \* the directory of sound files: bank index -> sound index -> file
    sound_type,     \* the SoundType of a sound import
    output,         \* the archive file being written: the chunks written so far
    offset,         \* the running offset of the import loop
    written,        \* for each chunk of output: the table position (index) of the
                    \* entry updated for it and the sizes of the sound entries of the
                    \* bank in memory when it was written
    not_mono,       \* import_sounds' not_mono
    pak_file,       \* a PakFiles.dat / StrmPaks.dat file: its bytes
    pak_names,      \* a PakNames value: the names it holds, in order
    name,           \* the name last passed to get_pak_idx_from_name
    pak_idx,        \* what that call returned
    pak_pc,         \* "idle", or "new", "loaded" once pak_names is built, "looked"
                    \* after a lookup
    slot_file,      \* a BankSlot.dat file: its num_slots field and its slot records
    bank_slot,      \* the BankSlot read from it: its slots
    sizes,          \* the sizes last passed to update_buf_sizes
    slot_out,       \* the output file of the bankslot command (<<>> while empty)
    snd_file,       \* a bank as it lies in an archive: its header and payload bytes
    snd_bank,       \* the Bank read from it
    snd_index,      \* RawSounds.index
    snd_out,        \* the RawSounds yielded so far, in order
    snd_pc,         \* "idle", or "new", "read" once the Bank is read, "ended" once
                    \* RawSounds has returned None, "panic"
    enc_wav,        \* the wav file given to the encoder: its channels, the number of
                    \* its samples and its smpl chunk
    enc_caller,     \* who converts the wav: the vag utility or the PS2 sound import
    enc_mode,       \* the LoopMode given to the encoder
    enc,            \* WAV2VAGEncoder / SampleEncoder: the length of samples,
                    \* loop_start_end, use_loop and the fields of iter_data
    enc_out,        \* the chunks SampleEncoder has yielded so far, in order
    enc_nones,      \* how many times SampleEncoder::next has returned None
    enc_pc,         \* "idle", or "new", "encoding" once the encoder is built,
                    \* "failed" when WAV2VAGEncoder::new returned an error
    dec_chunks,     \* VagAudio.chunks given to the decoder: the flags of each chunk
    dec_caller,     \* who advances the SampleDecoder: "flatten" (to_decoded and
                    \* to_wav) or "direct" (a user of the iterator)
    chunk_idx,      \* VAG2WAVDecoder.chunk_idx
    dec_out,        \* the sample groups yielded so far, in order: each the
                    \* position (from 0) of the chunk it was decoded from
    dec_nones,      \* how many times SampleDecoder::next has returned None
    dec_pc,         \* "idle" or "decoding"
    pack_prev,      \* the byte of a PackInfo before the last call of a setter
    pack_info,      \* the byte of the PackInfo
    pack_val,       \* the value given to the last call of a setter
    pack_op,        \* "idle", or "new", then the setter last called
    mfa_exe,        \* whether MFAudio.exe lies in the current directory
    mfa_banks,      \* what the banks iterator of the export gives: for each bank
                    \* whether it is read and made a directory, and its sounds
    mfa_fail,       \* the messages (by number, from 1) whose conversion fails
    mfa_pc,         \* where export_sounds_as_wav_mfaudio_ps2 is: "idle", "check",
                    \* "banks", "sending", "finish", "join", "returned"
    mfa_bank,       \* the number of banks it has taken from the iterator
    mfa_left,       \* the sounds of the current bank still to push
    mfa_sent,       \* the PushFile messages sent, in order
    mfa_queue,      \* the channel: the messages sent and not yet received
    mfa_sender,     \* whether the Sender is alive
    mfa_worker,     \* the helper thread: "none", "running", "exiting" once its
                    \* closure is left and the Receiver dropped, "finished"
    mfa_result,     \* what the closure of the helper ended with: "none", "Ok",
                    \* "Err", "panic"
    mfa_converted,  \* the messages the helper has converted, in order
    mfa_spawned,    \* how many threads were spawned
    mfa_joined,     \* whether handle.join() was called
    mfa_ret,        \* what the operation returned ("none" before it returns)
    slot_pc         \* "idle", or "new", "loaded", "updated" after a call of
                    \* update_buf_sizes, "exported", "imported", "failed", "panic"

\* The state of a run of the sfx command.
sfx_vars == <<build, run, lookup_file, archive_name, archive, lookup_table, pc, err, warns,
              lookup, lookup_idx, indexes, reader, item, items, dir, folders,
              sound_type, output, offset, written, not_mono>>

\* The state of the PakNames operations.
pak_vars == <<pak_file, pak_names, name, pak_idx, pak_pc>>

\* The state of the BankSlot operations.
slot_vars == <<slot_file, bank_slot, sizes, slot_out, slot_pc>>

\* The state of a walk through the sounds of one bank.
snd_vars == <<snd_file, snd_bank, snd_index, snd_out, snd_pc>>

\* The state of the VAG encoder.
enc_vars == <<enc_wav, enc_caller, enc_mode, enc, enc_out, enc_nones, enc_pc>>

\* The state of the VAG decoder.
dec_vars == <<dec_chunks, dec_caller, chunk_idx, dec_out, dec_nones, dec_pc>>

\* The state of a PackInfo under its setters.
pack_vars == <<pack_prev, pack_info, pack_val, pack_op>>

\* The state of the export through MFAudio.
mfa_vars == <<mfa_exe, mfa_banks, mfa_fail, mfa_pc, mfa_bank, mfa_left, mfa_sent, mfa_queue,
              mfa_sender, mfa_worker, mfa_result, mfa_converted, mfa_spawned, mfa_joined,
              mfa_ret>>

\* The state of the other commands, which a run of the sfx command leaves alone.
other_vars == <<pak_vars, slot_vars, snd_vars, enc_vars, dec_vars, pack_vars, mfa_vars>>

vars == <<sfx_vars, other_vars>>

\* No PakNames operation is under way.
PakIdle ==
    /\ pak_file = <<>>
    /\ pak_names = <<>>
    /\ name = <<>>
    /\ pak_idx = None
    /\ pak_pc = "idle"

\* No BankSlot operation is under way.
SlotIdle ==
    /\ slot_file = [num_slots |-> 0, slots |-> <<>>]
    /\ bank_slot = <<>>
    /\ sizes = <<>>
    /\ slot_out = <<>>
    /\ slot_pc = "idle"

\* No walk through the sounds of a bank is under way.
SndIdle ==
    /\ snd_file = [header |-> [num_sounds |-> 0, padding |-> 0, sound_entries |-> <<>>, slack |-> 0],
                   bytes |-> <<>>]
    /\ snd_bank = [index |-> 0, header |-> [padding |-> 0, sound_entries |-> <<>>], bytes |-> <<>>]
    /\ snd_index = 0
    /\ snd_out = <<>>
    /\ snd_pc = "idle"

\* IteratorData::default()
IteratorData_default == [idx |-> 0, pos |-> 0, last_pack_info |-> None, quit_at_the_next_iteration |-> FALSE]

\* The encoder before it is built.
EncIdleEncoder ==
    [samples_len |-> 0, loop_start_end |-> <<0, 0>>, use_loop |-> FALSE,
     iter_data |-> IteratorData_default]

\* No encoder is at work.
EncIdle ==
    /\ enc_wav = [channels |-> 1, num_samples |-> 0, smpl |-> None]
    /\ enc_caller = "vag"
    /\ enc_mode = "FromInput"
    /\ enc = EncIdleEncoder
    /\ enc_out = <<>>
    /\ enc_nones = 0
    /\ enc_pc = "idle"

\* No decoder is at work.
DecIdle ==
    /\ dec_chunks = <<>>
    /\ dec_caller = "flatten"
    /\ chunk_idx = 0
    /\ dec_out = <<>>
    /\ dec_nones = 0
    /\ dec_pc = "idle"

\* No PackInfo is at work.
PackIdle ==
    /\ pack_prev = 0
    /\ pack_info = 0
    /\ pack_val = 0
    /\ pack_op = "idle"

\* No export through MFAudio is under way.
MfaIdle ==
    /\ mfa_exe = FALSE
    /\ mfa_banks = <<>>
    /\ mfa_fail = {}
    /\ mfa_pc = "idle"
    /\ mfa_bank = 0
    /\ mfa_left = 0
    /\ mfa_sent = <<>>
    /\ mfa_queue = <<>>
    /\ mfa_sender = FALSE
    /\ mfa_worker = "none"
    /\ mfa_result = "none"
    /\ mfa_converted = <<>>
    /\ mfa_spawned = 0
    /\ mfa_joined = FALSE
    /\ mfa_ret = "none"

(***************************************************************************)
(* The inputs: archives and lookup files.                                   *)
(***************************************************************************)
\* Size of sound j (from 0) of the b-th bank of the file (from 1).
SoundSize(b, j) == 1 + ((b + j) % 2)

\* The entries of a bank with k sounds, as its header holds them.
DiskEntries(b, k) ==
    [j \in 1..k |->
        [offset |-> SumSeq([i \in 1..(j - 1) |-> SoundSize(b, i - 1)]),
         loop_offset |-> 0 - 1,
         sample_rate |-> 100 + j,
         headroom |-> j]]

\* Payload length of a bank with k sounds; a bank without sounds, or with a
\* header that does not parse, has one byte of payload.
PayloadLen(b, k) ==
    IF k = 0 \/ k > MAX_SOUND_ENTRIES THEN 1
    ELSE SumSeq([i \in 1..k |-> SoundSize(b, i - 1)])

\* Every payload byte of an archive differs from every other.
FileBank(b, k, hv) ==
    [header |-> [num_sounds |-> k,
                 padding |-> hv.padding,
                 sound_entries |-> IF k > MAX_SOUND_ENTRIES THEN <<>> ELSE DiskEntries(b, k),
                 slack |-> IF k > MAX_SOUND_ENTRIES THEN 1 ELSE hv.slack],
     bytes |-> [p \in 1..PayloadLen(b, k) |-> (16 * b) + p]]

\* num_sounds of a bank: 0..MaxSounds, or one above the maximum.
Shapes == (0..MaxSounds) \cup {MAX_SOUND_ENTRIES + 1}

\* The padding field and the unused entry slots of the headers of an archive.
HeaderVariants == {[padding |-> 0, slack |-> 0],
                   [padding |-> 7, slack |-> 0],
                   [padding |-> 7, slack |-> 1]}

\* The offset of the first bank of an archive: 0, 12, or the last byte a u32
\* can address (2^32 - 1).
Bases == {0, 12, 0 - 1}

Orders(n) == {f \in [1..n -> 1..n] : \A i, j \in 1..n : f[i] = f[j] => i = j}

ForeignEntry == [index |-> 1, padding |-> 5, offset |-> 0, length |-> 9]

\* The lookup file of an archive whose banks have payload lengths lens: the
\* first bank at offset base, each next one right behind (gap bytes further
\* for the last one), the entries in the order perm, an entry of another
\* archive at position fpos (none when fpos is 0).
LookupFileOf(lens, base, gap, perm, fpos) ==
    LET n == Len(lens)
        off(k) == base + SumSeq([j \in 1..(k - 1) |-> lens[j] + BankHeader_SIZE])
                       + (IF k = n /\ n > 1 THEN gap ELSE 0)
        m == [k \in 1..n |->
                [index |-> 0, padding |-> 0, offset |-> off(perm[k]), length |-> lens[perm[k]]]]
    IN IF fpos = 0 THEN m
       ELSE Prefix(m, fpos - 1) \o <<ForeignEntry>> \o SubSeq(m, fpos, n)

ArchiveNames == { <<"F","E","E","T","0","1">>, <<"N","O","P","E">> }

NoItem == [kind |-> "start", bank |-> [index |-> 0, header |-> [padding |-> 0, sound_entries |-> <<>>], bytes |-> <<>>]]

Init ==
    /\ build \in {"debug", "release"}
    /\ run = 1
    /\ archive_name \in ArchiveNames
    /\ \E n \in 0..MaxBanks, hv \in HeaderVariants :
         \E shapes \in [1..n -> Shapes], perm \in Orders(n),
            base \in Bases, gap \in {0, 1}, fpos \in 0..2 :
            /\ fpos = 1 <=> n = 0
            /\ n = 0 => base = 0
            /\ base # 0 => (hv = [padding |-> 0, slack |-> 0] /\ fpos = 0)
            /\ archive = [lead |-> base, banks |-> [b \in 1..n |-> FileBank(b, shapes[b], hv)]]
            /\ lookup_file =
                 LookupFileOf([b \in 1..n |-> PayloadLen(b, shapes[b])], base, gap, perm, fpos)
    /\ lookup_table = lookup_file
    /\ pc = "new"
    /\ err = ""
    /\ warns = <<>>
    /\ lookup = <<>>
    /\ lookup_idx = 0
    /\ indexes = <<>>
    /\ reader = 0
    /\ item = NoItem
    /\ items = <<>>
    /\ dir = [i \in {} |-> 0]
    /\ folders = [i \in {} |-> 0]
    /\ sound_type = "Raw"
    /\ output = <<>>
    /\ offset = 0
    /\ written = <<>>
    /\ not_mono = FALSE
    /\ PakIdle
    /\ MfaIdle
    /\ PackIdle
    /\ SlotIdle
    /\ SndIdle
    /\ EncIdle
    /\ DecIdle

(***************************************************************************)
(* SfxManager::load (sfx/mod.rs).                                           *)
(***************************************************************************)
UnsortedWarning == "Lookup entries were not sorted"

Load ==
    /\ pc = "new"
    /\ LET r == get_sorted_lookup_table(build, lookup_table, SFX_DEFAULT_PAK_NAMES,
                                        archive_name)
       IN IF r.err = "panic"
          THEN pc' = "panic" /\ UNCHANGED <<err, warns, lookup, indexes, reader>>
          ELSE IF r.err # ""
          THEN /\ pc' = "failed"
               /\ err' = r.err
               /\ UNCHANGED <<warns, lookup, indexes, reader>>
          ELSE /\ pc' = "loaded"
               /\ warns' = IF r.sorted THEN Append(warns, UnsortedWarning) ELSE warns
               /\ lookup' = r.lookup
               /\ indexes' = r.indexes
               /\ reader' = IF archive.lead = 0 THEN 0 ELSE 0 - 1
               /\ UNCHANGED err
    /\ UNCHANGED <<other_vars, build, run, lookup_file, archive_name, archive, lookup_table, lookup_idx,
                   item, items, dir, folders, sound_type, output, offset,
                   written, not_mono>>

(***************************************************************************)
(* BanksIter (sfx/bank.rs).                                                 *)
(***************************************************************************)
\* A size hint that does not count down.
BanksIter_size_hint_total(lk, idx) == Len(lk)

BanksIter_size_hint(lk, idx) == Len(lk) - idx

\* What a read yields once the cursor is no longer at the start of a bank:
\* an error, or a bank made of whatever bytes lie there.
StrayBank(index, length) ==
    [index |-> index,
     header |-> [padding |-> 0, sound_entries |-> <<>>],
     bytes |-> [p \in 1..length |-> 0]]

\* A version of BanksIter::next that seeks to the bank of the entry before it
\* reads: the bank read is the one at the entry's place in the file, wherever
\* the read before has left the cursor.
BanksIter_next_seeking(lk, idx, rd, file) ==
    IF idx >= Len(lk)
    THEN {[item |-> [kind |-> "None", bank |-> NoItem.bank], lookup_idx |-> idx, reader |-> rd]}
    ELSE LET index == lk[idx + 1].index
             entry == lk[idx + 1].e
             res(kind, bank, r) ==
                 [item |-> [kind |-> kind, bank |-> bank], lookup_idx |-> idx + 1, reader |-> r]
         IN IF idx >= Len(file)
            THEN {res("Err(Io)", NoItem.bank, 0 - 1)}
            ELSE LET fb == file[idx + 1]
                 IN IF ~BankHeader_read_ok(fb.header)
                    THEN {res("Err(BinRw)", NoItem.bank, 0 - 1)}
                    ELSE IF Len(fb.bytes) # entry.length
                    THEN {res("Err(Io)", NoItem.bank, 0 - 1)}
                    ELSE {res("Err(Io)", NoItem.bank, 0 - 1),
                          res("Ok",
                              [index |-> index,
                               header |-> BankHeader_read(fb.header, entry.length),
                               bytes |-> fb.bytes],
                              idx + 1)}

\* The possible results of one BanksIter::next: the item and the iterator's
\* new lookup_idx and reader position.  The file is read from the cursor
\* on, never sought; a read of the payload can fail (Err(Io)), a header with
\* too many sounds does not parse (Err(BinRw)).
BanksIter_next(lk, idx, rd, file) ==
    IF idx >= Len(lk)
    THEN {[item |-> [kind |-> "None", bank |-> NoItem.bank], lookup_idx |-> idx, reader |-> rd]}
    ELSE LET index == lk[idx + 1].index
             entry == lk[idx + 1].e
             res(kind, bank, r) ==
                 [item |-> [kind |-> kind, bank |-> bank], lookup_idx |-> idx + 1, reader |-> r]
         IN IF rd < 0 \/ rd >= Len(file)
            THEN {res("Err(BinRw)", NoItem.bank, 0 - 1),
                  res("Err(Io)", NoItem.bank, 0 - 1),
                  res("Ok", StrayBank(index, entry.length), 0 - 1)}
            ELSE LET fb == file[rd + 1]
                 IN IF ~BankHeader_read_ok(fb.header)
                    THEN {res("Err(BinRw)", NoItem.bank, 0 - 1)}
                    ELSE IF Len(fb.bytes) # entry.length
                    THEN {res("Err(Io)", NoItem.bank, 0 - 1)}
                    ELSE {res("Err(Io)", NoItem.bank, 0 - 1),
                          res("Ok",
                              [index |-> index,
                               header |-> BankHeader_read(fb.header, entry.length),
                               bytes |-> fb.bytes],
                              rd + 1)}

IsErr(it) == it.kind \in {"Err(BinRw)", "Err(Io)"}

\* The error tag a `?` on the item propagates.
ErrOf(it) == IF it.kind = "Err(BinRw)" THEN "BinRw" ELSE "Io"

(***************************************************************************)
(* A caller that walks the iterator itself, as the tests of sfx/mod.rs do   *)
(* (archive.banks().banks_iter()), and keeps advancing it.                  *)
(***************************************************************************)
StartIterate ==
    /\ pc = "loaded"
    /\ run = 1
    /\ pc' = "iterate"
    /\ UNCHANGED <<other_vars, build, run, lookup_file, archive_name, archive, lookup_table, err, warns,
                   lookup, lookup_idx, indexes, reader, item, items, dir, folders,
                   sound_type, output, offset, written, not_mono>>

IterNext ==
    /\ pc = "iterate"
    /\ \E r \in BanksIter_next(lookup, lookup_idx, reader, archive.banks) :
         /\ item' = r.item
         /\ lookup_idx' = r.lookup_idx
         /\ reader' = r.reader
         /\ items' = IF r.item.kind = "None" THEN items ELSE Append(items, r.item.kind)
    /\ UNCHANGED <<other_vars, build, run, lookup_file, archive_name, archive, lookup_table, pc, err, warns,
                   lookup, indexes, dir, folders, sound_type, output, offset, written,
                   not_mono>>

(***************************************************************************)
(* Banks::export_all_banks (sfx/bank.rs), one pass of its loop per step.    *)
(***************************************************************************)
EmptyDir == [i \in {} |-> 0]

PutFile(d, i, f) == [j \in (DOMAIN d) \cup {i} |-> IF j = i THEN f ELSE d[j]]

StartExportBanks ==
    /\ pc = "loaded"
    /\ dir = EmptyDir
    /\ pc' = "export_banks"
    /\ UNCHANGED <<other_vars, build, run, lookup_file, archive_name, archive, lookup_table, err, warns,
                   lookup, lookup_idx, indexes, reader, item, items, dir, folders,
                   sound_type, output, offset, written, not_mono>>

ExportBank ==
    /\ pc = "export_banks"
    /\ \E r \in BanksIter_next(lookup, lookup_idx, reader, archive.banks) :
         /\ item' = r.item
         /\ lookup_idx' = r.lookup_idx
         /\ reader' = r.reader
         /\ items' = IF r.item.kind = "None" THEN items ELSE Append(items, r.item.kind)
         /\ IF r.item.kind = "None"
            THEN pc' = "done" /\ UNCHANGED <<err, dir>>
            ELSE IF IsErr(r.item)
            THEN pc' = "failed" /\ err' = ErrOf(r.item) /\ UNCHANGED dir
            ELSE /\ dir' = PutFile(dir, r.item.bank.index, Bank_to_writer(r.item.bank))
                 /\ UNCHANGED <<pc, err>>
    /\ UNCHANGED <<other_vars, build, run, lookup_file, archive_name, archive, lookup_table, warns,
                   lookup, indexes, folders, sound_type, output, offset, written,
                   not_mono>>

(***************************************************************************)
(* SfxArchive::import_banks (sfx/mod.rs), one pass of its loop per step.    *)
(* A .bnk file is held as the archive keeps a bank: its total length, the   *)
(* serialised header and the payload.                                       *)
(***************************************************************************)
\* A well-formed .bnk file whose payload differs from every archive bank's.
GoodBnk ==
    [len |-> BankHeader_SIZE + 2,
     header |-> [num_sounds |-> 1, padding |-> 0,
                 sound_entries |-> << [offset |-> 0, loop_offset |-> 0 - 1,
                                       sample_rate |-> 300, headroom |-> 0] >>,
                 slack |-> 0],
     bytes |-> <<201, 202>>]

\* A file shorter than a bank header.
ShortBnk == [len |-> 10, header |-> NoHeader, bytes |-> <<>>]

\* A directory entry named bank_N.bnk that std::fs::read cannot read.
UnreadableBnk == [len |-> 0, header |-> NoHeader, bytes |-> <<>>, unreadable |-> TRUE]

\* The input directories: bank_N.bnk files for any of the indexes 0..MaxBanks
\* (no archive has a bank of index MaxBanks).
BankDirs ==
    {d \in UNION {[S -> {GoodBnk, ShortBnk, UnreadableBnk}] : S \in SUBSET (0..MaxBanks)} :
        MaxBanks \in DOMAIN d => d[MaxBanks] = GoodBnk}

\* The length of a replaced bank taken as the whole file's length.
ReplacedLength_whole_file(buf_len) == buf_len

\* (buf.len() - BankHeader::SIZE) as u32: the subtraction overflows for a
\* short file, which panics in a debug build and wraps in a release build.
ReplacedLength(buf_len) == buf_len - BankHeader_SIZE

\* An update of an entry that sets its offset and leaves its length.
SetEntry_offset_only(table, pos, off, length) ==
    [table EXCEPT ![pos] = [@ EXCEPT !.offset = off]]

SetEntry(table, pos, off, length) ==
    [table EXCEPT ![pos] = [@ EXCEPT !.offset = off, !.length = length]]

StartImportBanks ==
    /\ pc = "loaded"
    /\ IF run = 1 THEN dir' \in BankDirs ELSE dir' = dir
    /\ IF dir' = EmptyDir
       THEN pc' = "failed" /\ err' = "NoFileFound" /\ UNCHANGED <<output, offset>>
       ELSE pc' = "import_banks" /\ output' = <<>> /\ offset' = 0 /\ UNCHANGED err
    /\ UNCHANGED <<other_vars, build, run, lookup_file, archive_name, archive, lookup_table, warns,
                   lookup, lookup_idx, indexes, reader, item, items, folders,
                   sound_type, written, not_mono>>

ImportBank ==
    /\ pc = "import_banks"
    /\ \E r \in BanksIter_next(lookup, lookup_idx, reader, archive.banks) :
         /\ item' = r.item
         /\ lookup_idx' = r.lookup_idx
         /\ reader' = r.reader
         /\ items' = IF r.item.kind = "None" THEN items ELSE Append(items, r.item.kind)
         /\ IF r.item.kind = "None"
            THEN pc' = "done" /\ UNCHANGED <<err, lookup_table, output, offset, written>>
            ELSE IF IsErr(r.item)
            THEN /\ pc' = "failed"
                 /\ err' = ErrOf(r.item)
                 /\ UNCHANGED <<lookup_table, output, offset, written>>
            ELSE LET bank == r.item.bank
                     index == indexes[lookup_idx + 1]
                 IN IF bank.index \in DOMAIN dir
                    THEN LET buf == dir[bank.index]
                         IN IF buf = UnreadableBnk
                            THEN /\ pc' = "failed"
                                 /\ err' = "Io"
                                 /\ lookup_table' =
                                      SetEntry(lookup_table, index, offset,
                                               lookup_table[index].length)
                                 /\ UNCHANGED <<output, offset, written>>
                            ELSE IF buf.len < BankHeader_SIZE /\ build = "debug"
                            THEN /\ pc' = "panic"
                                 /\ lookup_table' =
                                      SetEntry(lookup_table, index, offset,
                                               lookup_table[index].length)
                                 /\ offset' = offset + buf.len
                                 /\ UNCHANGED <<err, output, written>>
                            ELSE /\ lookup_table' =
                                      SetEntry(lookup_table, index, offset,
                                               ReplacedLength(buf.len))
                                 /\ offset' = offset + buf.len
                                 /\ output' = Append(output, buf)
                                 /\ written' = Append(written,
                                                      [index |-> index, sizes |-> <<>>])
                                 /\ UNCHANGED <<pc, err>>
                    ELSE /\ lookup_table' =
                              SetEntry(lookup_table, index, offset, Len(bank.bytes))
                         /\ offset' = offset + Bank_len(bank)
                         /\ output' = Append(output, Bank_to_writer(bank))
                         /\ written' = Append(written,
                                              [index |-> index, sizes |-> Sizes(bank)])
                         /\ UNCHANGED <<pc, err>>
    /\ UNCHANGED <<other_vars, build, run, lookup_file, archive_name, archive, warns, lookup,
                   indexes, dir, folders, sound_type, not_mono>>

(***************************************************************************)
(* The import adapters (sfx/platforms): what a replacement file does to its *)
(* sound entry, the bytes it appends to the bank's new payload, and the     *)
(* not-mono flag it returns.                                                *)
(***************************************************************************)
\* One i16 sample in little-endian order.
write_le(sample) ==
    LET u == IF sample < 0 THEN sample + 65536 ELSE sample
    IN <<u % 256, (u \div 256) % 256>>

RECURSIVE samples_write_le(_)
samples_write_le(samples) ==
    IF samples = <<>> THEN <<>>
    ELSE write_le(samples[1]) \o samples_write_le(Tail(samples))

\* A replacement file that std::fs::read (import_raw) or Wav::from_file
\* (import_wav) fails on: the `?` of the adapter returns the error.
UnreadableFile == [channels |-> 0, sample_rate |-> 0, data |-> <<>>, unreadable |-> TRUE]

\* import_raw as it would be if it left the entry's size as it was.
import_raw_keeps_size(file, sentry) ==
    [sentry |-> sentry, bytes |-> file.data, not_mono |-> FALSE]

\* import_raw as it would be if it took the sample rate of the file as
\* import_wav does.
import_raw_with_rate(file, sentry) ==
    [sentry |-> [sentry EXCEPT !.sample_rate = file.sample_rate % 65536,
                               !.size = Len(file.data)],
     bytes |-> file.data,
     not_mono |-> FALSE]

import_raw(file, sentry) ==
    [sentry |-> [sentry EXCEPT !.size = Len(file.data)],
     bytes |-> file.data,
     not_mono |-> FALSE]

import_wav(file, sentry) ==
    [sentry |-> [sentry EXCEPT !.sample_rate = file.sample_rate % 65536,
                               !.size = Len(file.data) * 2],
     bytes |-> samples_write_le(file.data),
     not_mono |-> file.channels # 1]

import_sound(stype, file, sentry) ==
    IF stype = "Raw" THEN import_raw(file, sentry) ELSE import_wav(file, sentry)

(***************************************************************************)
(* The loop of SfxArchive::import_sounds over the sound entries of one bank *)
(* that has a folder: st is the loop's state after the entries before j.    *)
(***************************************************************************)
RECURSIVE import_sound_entries(_, _, _, _, _)
import_sound_entries(bank_bytes, files, stype, j, st) ==
    IF j > Len(st.entries) \/ st.panic \/ st.err # "" THEN st
    ELSE LET sentry == [st.entries[j] EXCEPT !.offset = st.soffset]
         IN IF (j - 1) \in DOMAIN files
            THEN IF files[j - 1] = UnreadableFile
                 THEN [st EXCEPT !.entries = [st.entries EXCEPT ![j] = sentry],
                                 !.err = "Io"]
                 ELSE LET imp == import_sound(stype, files[j - 1], sentry)
                      IN import_sound_entries(bank_bytes, files, stype, j + 1,
                             [soffset |-> st.soffset + imp.sentry.size,
                              entries |-> [st.entries EXCEPT ![j] = imp.sentry],
                              bytes |-> st.bytes \o imp.bytes,
                              not_mono |-> imp.not_mono,
                              panic |-> FALSE,
                              err |-> ""])
            ELSE LET offset_start == sentry.offset
                     offset_end == offset_start + sentry.size
                 IN IF offset_start > offset_end \/ offset_end > Len(bank_bytes)
                    THEN [st EXCEPT !.entries = [st.entries EXCEPT ![j] = sentry],
                                    !.panic = TRUE]
                    ELSE import_sound_entries(bank_bytes, files, stype, j + 1,
                             [soffset |-> st.soffset + sentry.size,
                              entries |-> [st.entries EXCEPT ![j] = sentry],
                              bytes |-> st.bytes \o
                                        SubSeq(bank_bytes, offset_start + 1, offset_end),
                              not_mono |-> st.not_mono,
                              panic |-> FALSE,
                              err |-> ""])

\* The bank after the loop, for a bank that has a folder.
import_into_bank(bank, files, stype, nm) ==
    LET st == import_sound_entries(bank.bytes, files, stype, 1,
                  [soffset |-> 0, entries |-> bank.header.sound_entries,
                   bytes |-> <<>>, not_mono |-> nm, panic |-> FALSE, err |-> ""])
    IN [bank |-> [index |-> bank.index,
                  header |-> [bank.header EXCEPT !.sound_entries = st.entries],
                  bytes |-> st.bytes],
        not_mono |-> st.not_mono,
        panic |-> st.panic,
        err |-> st.err]

(***************************************************************************)
(* The input directories of a sound import: per bank a folder of            *)
(* replacement files, keyed by sound index.                                 *)
(***************************************************************************)
SoundFiles ==
    {[channels |-> 2, sample_rate |-> 222, data |-> <<>>],
     [channels |-> 1, sample_rate |-> 111, data |-> <<91, 92, 93>>],
     UnreadableFile}

\* A folder whose only file is for a sound index no bank has.
StrayFolder == [j \in {MaxSounds} |-> CHOOSE f \in SoundFiles : f.data # <<>>]

FoldersOf(ns) == UNION {[S -> SoundFiles] : S \in SUBSET (0..(ns - 1))}

\* The folder sets for an archive: for each bank the code can read, no
\* folder, a stray folder, or replacements for some of its sounds; or one
\* folder, for a bank index the archive does not have.
FolderSets(lk, file) ==
    LET n == Len(lk)
        opts(k) == IF BankHeader_read_ok(file[k].header)
                   THEN FoldersOf(file[k].header.num_sounds) \cup {StrayFolder}
                   ELSE {EmptyDir}
        choices == {c \in [1..n -> FoldersOf(MaxSounds) \cup {StrayFolder}] :
                        \A k \in 1..n : c[k] \in opts(k)}
        pos(i) == CHOOSE k \in 1..n : lk[k].index = i
    IN {[i \in {lk[k].index : k \in {k \in 1..n : c[k] # EmptyDir}} |-> c[pos(i)]] :
            c \in choices}
       \cup {[i \in {MaxBanks} |-> StrayFolder]}

SoundTypes == {"Raw", "PcWav"}

NotMonoWarning == "One or more of wav files wasn't mono"

StartImportSounds ==
    /\ pc = "loaded"
    /\ run = 1
    /\ sound_type' \in SoundTypes
    /\ folders' \in FolderSets(lookup, archive.banks)
    /\ IF folders' = EmptyDir
       THEN pc' = "failed" /\ err' = "NoFolderFound" /\ UNCHANGED <<output, offset, not_mono>>
       ELSE /\ pc' = "import_sounds"
            /\ output' = <<>>
            /\ offset' = 0
            /\ not_mono' = FALSE
            /\ UNCHANGED err
    /\ UNCHANGED <<other_vars, build, run, lookup_file, archive_name, archive, lookup_table, warns,
                   lookup, lookup_idx, indexes, reader, item, items, dir, written>>

ImportSoundsBank ==
    /\ pc = "import_sounds"
    /\ \E r \in BanksIter_next(lookup, lookup_idx, reader, archive.banks) :
         /\ item' = r.item
         /\ lookup_idx' = r.lookup_idx
         /\ reader' = r.reader
         /\ items' = IF r.item.kind = "None" THEN items ELSE Append(items, r.item.kind)
         /\ IF r.item.kind = "None"
            THEN /\ pc' = "done"
                 /\ warns' = IF not_mono THEN Append(warns, NotMonoWarning) ELSE warns
                 /\ UNCHANGED <<err, lookup_table, output, offset, written, not_mono>>
            ELSE IF IsErr(r.item)
            THEN /\ pc' = "failed"
                 /\ err' = ErrOf(r.item)
                 /\ UNCHANGED <<warns, lookup_table, output, offset, written, not_mono>>
            ELSE LET index == indexes[lookup_idx + 1]
                     imp == IF r.item.bank.index \in DOMAIN folders
                            THEN import_into_bank(r.item.bank, folders[r.item.bank.index],
                                                  sound_type, not_mono)
                            ELSE [bank |-> r.item.bank, not_mono |-> not_mono,
                                  panic |-> FALSE, err |-> ""]
                 IN /\ not_mono' = imp.not_mono
                    /\ IF imp.err # ""
                       THEN /\ pc' = "failed"
                            /\ err' = imp.err
                            /\ lookup_table' = SetEntry(lookup_table, index, offset,
                                                        lookup_table[index].length)
                            /\ UNCHANGED <<warns, output, offset, written>>
                       ELSE IF imp.panic
                       THEN /\ pc' = "panic"
                            /\ lookup_table' = SetEntry(lookup_table, index, offset,
                                                        lookup_table[index].length)
                            /\ UNCHANGED <<err, warns, output, offset, written>>
                       ELSE /\ lookup_table' = SetEntry(lookup_table, index, offset,
                                                        Len(imp.bank.bytes))
                            /\ offset' = offset + Bank_len(imp.bank)
                            /\ output' = Append(output, Bank_to_writer(imp.bank))
                            /\ written' = Append(written,
                                                 [index |-> index, sizes |-> Sizes(imp.bank)])
                            /\ UNCHANGED <<pc, err, warns>>
    /\ UNCHANGED <<other_vars, build, run, lookup_file, archive_name, archive, lookup, indexes, dir,
                   folders, sound_type>>

(***************************************************************************)
(* A second invocation of the tool after an export of the banks: the table  *)
(* is read again from the lookup file and the exported directory is still   *)
(* there.                                                                   *)
(***************************************************************************)
RunAgain ==
    /\ pc = "done"
    /\ run = 1
    /\ dir # EmptyDir
    /\ output = <<>>
    /\ run' = 2
    /\ pc' = "new"
    /\ lookup_table' = lookup_file
    /\ warns' = <<>>
    /\ lookup' = <<>>
    /\ indexes' = <<>>
    /\ lookup_idx' = 0
    /\ reader' = 0
    /\ item' = NoItem
    /\ items' = <<>>
    /\ UNCHANGED <<other_vars, build, lookup_file, archive_name, archive, err, dir, folders,
                   sound_type, output, offset, written, not_mono>>

Next ==
    \/ Load
    \/ StartIterate
    \/ IterNext
    \/ StartExportBanks
    \/ ExportBank
    \/ StartImportBanks
    \/ ImportBank
    \/ StartImportSounds
    \/ ImportSoundsBank
    \/ RunAgain

Spec == Init /\ [][Next]_vars

(***************************************************************************)
(* The other commands work on files of their own: while they run, no run   *)
(* of the sfx command is under way.                                         *)
(***************************************************************************)
SfxIdle ==
    /\ run = 1
    /\ archive_name = <<>>
    /\ archive = [lead |-> 0, banks |-> <<>>]
    /\ lookup_file = <<>>
    /\ lookup_table = <<>>
    /\ pc = "idle"
    /\ err = ""
    /\ warns = <<>>
    /\ lookup = <<>>
    /\ lookup_idx = 0
    /\ indexes = <<>>
    /\ reader = 0
    /\ item = NoItem
    /\ items = <<>>
    /\ dir = [i \in {} |-> 0]
    /\ folders = [i \in {} |-> 0]
    /\ sound_type = "Raw"
    /\ output = <<>>
    /\ offset = 0
    /\ written = <<>>
    /\ not_mono = FALSE

(***************************************************************************)
(* PakNames: building a name list and looking names up in it               *)
(* (config/paknames, driven by the config and sfx commands).                *)
(***************************************************************************)
\* The bytes of a file of name records: each name, a NUL, and NULs up to the
\* next multiple of align.
RECURSIVE PakFileOf(_, _)
PakFileOf(names, align) ==
    IF names = <<>> THEN <<>>
    ELSE LET n == Head(names)
             size == ((Len(n) + align) \div align) * align
         IN n \o [i \in 1..(size - Len(n)) |-> "NUL"] \o PakFileOf(Tail(names), align)

\* The name lists of the files: the first names of the game's own file, the
\* same names in other cases, a name that ends in a digit, no name at all.
StoredNames ==
    { << <<"F","E","E","T">>, <<"G","E","N","R","L">> >>,
      << <<"f","e","e","t">>, <<"G","e","n","r","l">> >>,
      << <<"P","A","I","N","2">>, <<"F","E","E","T">> >>,
      <<>> }

PakFiles ==
    {PakFileOf(names, SfxPakName_align) : names \in StoredNames}
        \cup {PakFileOf(names, StreamPakName_align) : names \in StoredNames}

\* The names looked up.
Names ==
    { <<"F","E","E","T">>, <<"f","e","e","t">>, <<"F","E","E","T","0","1">>,
      <<"f","e","e","t","2">>, <<"F","E","2","E","T">>, <<"F","E","E","T","3">>,
      <<"G","E","N","R","L">>, <<"g","e","n","r","l","1">>,
      <<"P","A","I","N","2">>, <<"p","a","i","n">>,
      <<"S","P","C","_","P","A">>, <<"S","P","c","_","P","a">>,
      <<"T","K">>, <<"t","k","1","2">>, <<"a","a">>,
      <<"U","n","k","n","o","w","n">>, <<"0">>, <<"2","1">>, <<>> }

PakInit ==
    /\ build = "release"
    /\ SfxIdle
    /\ MfaIdle
    /\ PackIdle
    /\ SlotIdle
    /\ SndIdle
    /\ EncIdle
    /\ DecIdle
    /\ pak_file \in PakFiles
    /\ pak_names = <<>>
    /\ name = <<>>
    /\ pak_idx = None
    /\ pak_pc = "new"

\* PakNames::sfx()
LoadSfxDefaults ==
    /\ pak_pc = "new"
    /\ pak_names' = PakNames_sfx
    /\ pak_pc' = "loaded"
    /\ UNCHANGED <<sfx_vars, mfa_vars, pack_vars, slot_vars, snd_vars, enc_vars, dec_vars, pak_file, name, pak_idx>>

\* PakNames::stream()
LoadStreamDefaults ==
    /\ pak_pc = "new"
    /\ pak_names' = PakNames_stream
    /\ pak_pc' = "loaded"
    /\ UNCHANGED <<sfx_vars, mfa_vars, pack_vars, slot_vars, snd_vars, enc_vars, dec_vars, pak_file, name, pak_idx>>

\* PakNames::sfx_from_reader
LoadSfxFromReader ==
    /\ pak_pc = "new"
    /\ pak_names' = PakNames_sfx_from_reader(pak_file)
    /\ pak_pc' = "loaded"
    /\ UNCHANGED <<sfx_vars, mfa_vars, pack_vars, slot_vars, snd_vars, enc_vars, dec_vars, pak_file, name, pak_idx>>

\* PakNames::stream_from_reader
LoadStreamFromReader ==
    /\ pak_pc = "new"
    /\ pak_names' = PakNames_stream_from_reader(pak_file)
    /\ pak_pc' = "loaded"
    /\ UNCHANGED <<sfx_vars, mfa_vars, pack_vars, slot_vars, snd_vars, enc_vars, dec_vars, pak_file, name, pak_idx>>

\* PakNames::get_pak_idx_from_name
GetPakIdxFromName ==
    /\ pak_pc \in {"loaded", "looked"}
    /\ \E n \in Names :
         /\ name' = n
         /\ pak_idx' = get_pak_idx_from_name(pak_names, n)
    /\ pak_pc' = "looked"
    /\ UNCHANGED <<sfx_vars, mfa_vars, pack_vars, slot_vars, snd_vars, enc_vars, dec_vars, pak_file, pak_names>>

PakNext ==
    \/ LoadSfxDefaults
    \/ LoadStreamDefaults
    \/ LoadSfxFromReader
    \/ LoadStreamFromReader
    \/ GetPakIdxFromName

PakSpec == PakInit /\ [][PakNext]_vars

(***************************************************************************)
(* BankSlot (config/bankslot) and the bankslot command.  A slot is its     *)
(* offset, its size and its unknown field; u32 values of 2^31 and more are *)
(* held as the negative integer of the same bit pattern.                    *)
(***************************************************************************)
MaxSlots == 3

\* BankSlot::read: num_slots, then that many slots; Err(BinRw) when the file
\* ends before them.  What follows the last slot is not read.
BankSlot_from_reader(file) ==
    IF file.num_slots > Len(file.slots)
    THEN [ok |-> FALSE, slots |-> <<>>]
    ELSE [ok |-> TRUE, slots |-> Prefix(file.slots, file.num_slots)]

\* BankSlot::write: num_slots is calculated from the slots.
BankSlot_to_writer(slots) == [num_slots |-> Len(slots), slots |-> slots]

export_buf_sizes(slots) == [i \in DOMAIN slots |-> slots[i].size]

RECURSIVE update_buf_sizes_loop(_, _, _, _, _)
\* The loop of update_buf_sizes from slot i on, off being the local
\* offset.  `offset += size` panics in a debug build when the sum does not
\* fit a u32, and wraps in a release build.
update_buf_sizes_loop(bld, slots, new_sizes, i, off) ==
    IF i > Len(slots) THEN [panic |-> FALSE, slots |-> slots]
    ELSE LET set == [slots EXCEPT ![i].size = new_sizes[i], ![i].offset = off]
         IN IF bld = "debug" /\ u32_add_overflows(off, new_sizes[i])
            THEN [panic |-> TRUE, slots |-> set]
            ELSE update_buf_sizes_loop(bld, set, new_sizes, i + 1, off + new_sizes[i])

\* BankSlot::update_buf_sizes: assert_eq! on the lengths, unwrap of the
\* first slot, then the loop.
update_buf_sizes(bld, slots, new_sizes) ==
    IF Len(new_sizes) # Len(slots) THEN [panic |-> TRUE, slots |-> slots]
    ELSE IF slots = <<>> THEN [panic |-> TRUE, slots |-> slots]
    ELSE update_buf_sizes_loop(bld, slots, new_sizes, 1, slots[1].offset)

RECURSIVE parse_lines(_)
\* The lines of the txt file that parse as a u32, in order; the other lines
\* are dropped.  A line is <<v>>, the digits of the u32 v, or <<>>, a text
\* that is no u32.
parse_lines(lines) ==
    IF lines = <<>> THEN <<>>
    ELSE IF Head(lines) = <<>> THEN parse_lines(Tail(lines))
    ELSE <<Head(lines)[1]>> \o parse_lines(Tail(lines))

\* The slots of the input files, and the files.
SlotRecords ==
    { [offset |-> 8, size |-> 5, unknown |-> 7],
      [offset |-> 0 - 4, size |-> 0, unknown |-> 0 - 1] }

RECURSIVE SeqsUpTo(_, _)
\* The sequences over S of length up to n.
SeqsUpTo(S, n) ==
    IF n = 0 THEN {<<>>}
    ELSE LET shorter == SeqsUpTo(S, n - 1)
         IN shorter \cup {Append(q, x) : q \in {r \in shorter : Len(r) = n - 1}, x \in S}

SlotFiles ==
    { [num_slots |-> k, slots |-> recs] :
        k \in 0..MaxSlots, recs \in SeqsUpTo(SlotRecords, MaxSlots) }

\* The sizes of a txt file or of a call: small ones, and 2^32 - 2.
SizeValues == {0, 3, 0 - 2}

SlotInit ==
    /\ build \in {"debug", "release"}
    /\ SfxIdle
    /\ MfaIdle
    /\ PackIdle
    /\ PakIdle
    /\ SndIdle
    /\ EncIdle
    /\ DecIdle
    /\ slot_file \in {f \in SlotFiles : f.num_slots \in {Len(f.slots), Len(f.slots) + 1, Len(f.slots) - 1}}
    /\ bank_slot = <<>>
    /\ sizes = <<>>
    /\ slot_out = <<>>
    /\ slot_pc = "new"

\* BankSlotCommands::command up to "BankSlot loaded."
LoadBankSlot ==
    /\ slot_pc = "new"
    /\ LET r == BankSlot_from_reader(slot_file)
       IN IF r.ok
          THEN bank_slot' = r.slots /\ slot_pc' = "loaded"
          ELSE bank_slot' = bank_slot /\ slot_pc' = "failed"
    /\ UNCHANGED <<sfx_vars, mfa_vars, pack_vars, pak_vars, snd_vars, enc_vars, dec_vars, slot_file, sizes, slot_out>>

\* BankSlotCommands::Export: one line for each size.
ExportBankSlot ==
    /\ slot_pc = "loaded"
    /\ slot_out' = export_buf_sizes(bank_slot)
    /\ slot_pc' = "exported"
    /\ UNCHANGED <<sfx_vars, mfa_vars, pack_vars, pak_vars, snd_vars, enc_vars, dec_vars, slot_file, bank_slot, sizes>>

\* BankSlotCommands::Import: the sizes of the txt file, the check of their
\* number, update_buf_sizes and the writing of the table.
ImportBankSlot ==
    /\ slot_pc = "loaded"
    /\ \E txt \in SeqsUpTo({<<v>> : v \in SizeValues} \cup {<<>>}, MaxSlots) :
         LET parsed == parse_lines(txt)
             r == update_buf_sizes(build, bank_slot, parsed)
         IN IF Len(parsed) # Len(export_buf_sizes(bank_slot))
            THEN slot_pc' = "failed" /\ UNCHANGED <<bank_slot, sizes, slot_out>>
            ELSE /\ sizes' = parsed
                 /\ bank_slot' = r.slots
                 /\ IF r.panic
                    THEN slot_pc' = "panic" /\ slot_out' = slot_out
                    ELSE slot_pc' = "imported" /\ slot_out' = BankSlot_to_writer(r.slots)
    /\ UNCHANGED <<sfx_vars, mfa_vars, pack_vars, pak_vars, snd_vars, enc_vars, dec_vars, slot_file>>

\* A call of BankSlot::update_buf_sizes by another user of the library, with
\* sizes of any number.
UpdateBufSizes ==
    /\ slot_pc = "loaded"
    /\ \E new_sizes \in SeqsUpTo(SizeValues, MaxSlots) :
         LET r == update_buf_sizes(build, bank_slot, new_sizes)
         IN /\ sizes' = new_sizes
            /\ bank_slot' = r.slots
            /\ slot_pc' = IF r.panic THEN "panic" ELSE "updated"
    /\ UNCHANGED <<sfx_vars, mfa_vars, pack_vars, pak_vars, snd_vars, enc_vars, dec_vars, slot_file, slot_out>>

SlotNext ==
    \/ LoadBankSlot
    \/ ExportBankSlot
    \/ ImportBankSlot
    \/ UpdateBufSizes

SlotSpec == SlotInit /\ [][SlotNext]_vars

(***************************************************************************)
(* The sounds of one bank: the sizes BankHeader::read derives               *)
(* (sfx/structures.rs) and the RawSounds iterator (sfx/sound.rs), for banks *)
(* whose sound entries hold any offsets.                                    *)
(*                                                                          *)
(* A size is a usize.  A negative size stands for the value the             *)
(* subtraction wraps to: 2^32 + size for an entry that has a next one (the  *)
(* difference is taken in u32), 2^64 + size for the last one (taken in      *)
(* usize).                                                                  *)
(***************************************************************************)
MaxEntries == 3
MaxOffset == 3

\* generate_sizes takes a difference that does not fit: next.offset below
\* current.offset, or the last offset above len.  A debug build panics there.
generate_sizes_overflows(sound_entries, len) ==
    \E k \in DOMAIN sound_entries :
        IF k < Len(sound_entries)
        THEN sound_entries[k + 1].offset < sound_entries[k].offset
        ELSE len < sound_entries[k].offset

\* Bank::raw_sounds(): the iterator before its first advance.
raw_sounds_index == 0

\* RawSounds::next at index idx: "None" past the last entry, "panic" when
\* offset_start + size does not fit a usize in a debug build or the range
\* offset_start..offset_end does not lie in bytes, else the RawSound.  A
\* wrapped size of an entry with a next one puts offset_end at 2^32 or more,
\* beyond any payload; the wrapped size of a last entry makes the sum wrap
\* to bytes.len(), below offset_start.
RawSounds_next(bytes, entries, idx) ==
    IF idx >= Len(entries) THEN [kind |-> "None"]
    ELSE LET e == entries[idx + 1]
             offset_start == e.offset
             offset_end == offset_start + e.size
         IN IF e.size < 0 \/ offset_end > Len(bytes)
            THEN [kind |-> "panic"]
            ELSE [kind |-> "Some",
                  sound |-> [index |-> idx,
                             sample_rate |-> e.sample_rate,
                             bytes |-> SubSeq(bytes, offset_start + 1, offset_end)]]

\* The banks: up to MaxEntries sound entries with offsets up to MaxOffset in
\* any order, and a payload of up to MaxOffset bytes, each byte different.
SndFiles ==
    { [header |-> [num_sounds |-> Len(offs),
                   padding |-> 0,
                   sound_entries |->
                       [k \in DOMAIN offs |->
                           [offset |-> offs[k], loop_offset |-> 0 - 1,
                            sample_rate |-> 100 + k, headroom |-> k]],
                   slack |-> 0],
       bytes |-> [p \in 1..len |-> 16 + p]] :
        offs \in SeqsUpTo(0..MaxOffset, MaxEntries), len \in 0..MaxOffset }

SndInit ==
    /\ build \in {"debug", "release"}
    /\ SfxIdle
    /\ MfaIdle
    /\ PackIdle
    /\ PakIdle
    /\ SlotIdle
    /\ EncIdle
    /\ DecIdle
    /\ snd_file \in SndFiles
    /\ snd_bank = [index |-> 0, header |-> [padding |-> 0, sound_entries |-> <<>>], bytes |-> <<>>]
    /\ snd_index = 0
    /\ snd_out = <<>>
    /\ snd_pc = "new"

\* BanksIter::next on this bank, its lookup entry holding the length of the
\* payload, and Bank::raw_sounds.
ReadSoundBank ==
    /\ snd_pc = "new"
    /\ IF build = "debug"
          /\ generate_sizes_overflows(snd_file.header.sound_entries, Len(snd_file.bytes))
       THEN snd_pc' = "panic" /\ UNCHANGED <<snd_bank, snd_index>>
       ELSE /\ snd_bank' = [index |-> 0,
                            header |-> BankHeader_read(snd_file.header, Len(snd_file.bytes)),
                            bytes |-> snd_file.bytes]
            /\ snd_index' = raw_sounds_index
            /\ snd_pc' = "read"
    /\ UNCHANGED <<sfx_vars, mfa_vars, pack_vars, pak_vars, slot_vars, enc_vars, dec_vars, snd_file, snd_out>>

\* One advance of RawSounds.
RawSoundsNext ==
    /\ snd_pc = "read"
    /\ LET r == RawSounds_next(snd_bank.bytes, snd_bank.header.sound_entries, snd_index)
       IN IF r.kind = "None"
          THEN snd_pc' = "ended" /\ UNCHANGED <<snd_index, snd_out>>
          ELSE IF r.kind = "panic"
          THEN snd_pc' = "panic" /\ UNCHANGED <<snd_index, snd_out>>
          ELSE /\ snd_out' = Append(snd_out, r.sound)
               /\ snd_index' = snd_index + 1
               /\ snd_pc' = snd_pc
    /\ UNCHANGED <<sfx_vars, mfa_vars, pack_vars, pak_vars, slot_vars, enc_vars, dec_vars, snd_file, snd_bank>>

SndNext ==
    \/ ReadSoundBank
    \/ RawSoundsNext

SndSpec == SndInit /\ [][SndNext]_vars

(***************************************************************************)
(* The VAG encoder (utils/vag/encoder.rs).  The samples are held by their  *)
(* number only.  What get_predict_and_shift finds for a chunk, and the      *)
(* bytes the chunk is packed to, depend on the values of the samples: the   *)
(* pack_infos of a data chunk is any of PackInfos, its sample bytes are     *)
(* "packed"; the bytes of a chunk without samples are "zero".               *)
(***************************************************************************)
MaxSamples == 57
MaxLoops == 2

VAG_SAMPLE_BYTES == 14
VAG_SAMPLE_NIBBL == VAG_SAMPLE_BYTES * 2

\* usize::MAX, which no chunk index of the model reaches; the other negative
\* numbers stand for the u32 values from 2^31 on, -1 for 4294967295.
usize_MAX == 0 - 2147483647

\* A version of get_loop_offset without the step for a loop point inside a
\* chunk.
get_loop_offset_floor(loop_offset) == (loop_offset \div 28) + 1

get_loop_offset(loop_offset) ==
    (loop_offset \div 28) + (IF loop_offset % 28 # 0 THEN 2 ELSE 1)

\* try_read_sample_chunk: None without a smpl chunk; else the start and end
\* that the loop over the sample loops leaves in loop_info: (0, 0), overwritten
\* by every record read.
try_read_sample_chunk(wav) ==
    IF wav.smpl = None THEN None
    ELSE LET loops == wav.smpl[1]
         IN Some(IF loops = <<>> THEN <<0, 0>> ELSE loops[Len(loops)])

\* loop_start_end of WAV2VAGEncoder::new; wrapping_sub is the subtraction of
\* the model.
new_loop_start_end(wav) ==
    LET r == try_read_sample_chunk(wav)
    IN IF r = None THEN <<0, usize_MAX>>
       ELSE <<get_loop_offset(r[1][1]) - 1, get_loop_offset(r[1][2]) - 2>>

\* The length of samples after `samples.extend(vec![0; rs])`.
extended_len(len) ==
    LET rs == len % VAG_SAMPLE_NIBBL
    IN IF rs # 0 THEN len + rs ELSE len

\* WAV2VAGEncoder::new followed by encoder(): Err(InvalidWav) for a wav that
\* is not mono.
WAV2VAGEncoder_new(wav, loop_mode) ==
    IF wav.channels # 1 THEN [ok |-> FALSE, encoder |-> EncIdleEncoder]
    ELSE [ok |-> TRUE,
          encoder |-> [samples_len |-> extended_len(wav.num_samples),
                       loop_start_end |-> new_loop_start_end(wav),
                       use_loop |-> loop_mode \in {"FromInput", "ForceLoop"},
                       iter_data |-> IteratorData_default]]

\* SampleEncoder::get_flags: the flag, and quit_at_the_next_iteration after it.
get_flags(e) ==
    IF e.samples_len - e.iter_data.pos > VAG_SAMPLE_NIBBL
    THEN IF e.use_loop
         THEN IF e.iter_data.idx = e.loop_start_end[2]
              THEN [flag |-> "LoopEnd", quit |-> TRUE]
              ELSE IF e.iter_data.idx = e.loop_start_end[1]
              THEN [flag |-> "LoopStart", quit |-> e.iter_data.quit_at_the_next_iteration]
              ELSE [flag |-> "LoopRegion", quit |-> e.iter_data.quit_at_the_next_iteration]
         ELSE [flag |-> "Nothing", quit |-> e.iter_data.quit_at_the_next_iteration]
    ELSE [flag |-> IF e.use_loop THEN "LoopEnd" ELSE "LoopLastBlock",
          quit |-> e.iter_data.quit_at_the_next_iteration]

\* The pack_infos get_predict_and_shift can give a chunk.
PackInfos == {[predict |-> 0, shift_factor |-> 12], [predict |-> 2, shift_factor |-> 5]}

\* SampleEncoder::next: the possible results, each the item (None or Some of
\* a chunk) and the encoder after the call.
SampleEncoder_next(e) ==
    IF e.iter_data.quit_at_the_next_iteration
    THEN {[item |-> IF e.iter_data.last_pack_info = None THEN None
                    ELSE Some([pack_infos |-> e.iter_data.last_pack_info[1],
                               flags |-> "PlaybackEnd",
                               sample |-> "zero"]),
           encoder |-> [e EXCEPT !.iter_data.last_pack_info = None]]}
    ELSE IF e.iter_data.pos + VAG_SAMPLE_NIBBL > e.samples_len
    THEN {[item |-> None, encoder |-> e]}
    ELSE {[item |-> Some([pack_infos |-> p, flags |-> get_flags(e).flag, sample |-> "packed"]),
           encoder |->
               [e EXCEPT !.iter_data.quit_at_the_next_iteration = get_flags(e).quit,
                         !.iter_data.last_pack_info =
                             IF e.use_loop THEN e.iter_data.last_pack_info ELSE Some(p),
                         !.iter_data.idx = e.iter_data.idx + 1,
                         !.iter_data.pos = e.iter_data.pos + VAG_SAMPLE_NIBBL]] :
          p \in PackInfos}

\* The loop points of the sample loops of the wav files, and their smpl
\* chunks: none, or one with up to MaxLoops sample loops.
LoopPoints == {0, 28, 29, 57}
SampleLoops == LoopPoints \X LoopPoints
SmplChunks ==
    {None} \cup {Some(loops) : loops \in SeqsUpTo(SampleLoops, 1)}
           \cup {Some(loops) : loops \in SeqsUpTo({<<0, 57>>, <<28, 29>>, <<29, 0>>}, MaxLoops)}

WavFiles ==
    {[channels |-> 1, num_samples |-> n, smpl |-> c] : n \in 0..MaxSamples, c \in SmplChunks}
        \cup {[channels |-> 2, num_samples |-> 28, smpl |-> None]}

LoopModes == {"FromInput", "ForceLoop", "ForceNoLoop"}

\* The callers of VagAudio::from_wav: the vag utility of the command line,
\* with the loop mode of its option, and import_wav of the PS2 sound import,
\* with the loop mode it has in its code.
EncCallers == {"vag", "import_wav"}

import_wav_loop_mode == "FromInput"

\* How many times the encoder is advanced after it has returned None.
MaxNones == 2

EncInit ==
    /\ build = "release"
    /\ SfxIdle
    /\ MfaIdle
    /\ PackIdle
    /\ PakIdle
    /\ SlotIdle
    /\ SndIdle
    /\ DecIdle
    /\ enc_wav \in WavFiles
    /\ enc_caller \in EncCallers
    /\ enc_mode \in (IF enc_caller = "import_wav" THEN {import_wav_loop_mode} ELSE LoopModes)
    /\ enc = EncIdleEncoder
    /\ enc_out = <<>>
    /\ enc_nones = 0
    /\ enc_pc = "new"

\* WAV2VAGEncoder::new and encoder()
NewEncoder ==
    /\ enc_pc = "new"
    /\ LET r == WAV2VAGEncoder_new(enc_wav, enc_mode)
       IN IF r.ok
          THEN enc' = r.encoder /\ enc_pc' = "encoding"
          ELSE enc' = enc /\ enc_pc' = "failed"
    /\ UNCHANGED <<sfx_vars, mfa_vars, pack_vars, pak_vars, slot_vars, snd_vars, dec_vars, enc_wav, enc_caller, enc_mode, enc_out, enc_nones>>

\* One call of SampleEncoder::next, by collect() or by a caller that keeps
\* advancing after None.
SampleEncoderNext ==
    /\ enc_pc = "encoding"
    /\ enc_nones < MaxNones
    /\ \E r \in SampleEncoder_next(enc) :
         /\ enc' = r.encoder
         /\ IF r.item = None
            THEN enc_nones' = enc_nones + 1 /\ enc_out' = enc_out
            ELSE enc_nones' = enc_nones /\ enc_out' = Append(enc_out, r.item[1])
    /\ UNCHANGED <<sfx_vars, mfa_vars, pack_vars, pak_vars, slot_vars, snd_vars, dec_vars, enc_wav, enc_caller, enc_mode, enc_pc>>

EncNext ==
    \/ NewEncoder
    \/ SampleEncoderNext

EncSpec == EncInit /\ [][EncNext]_vars

(***************************************************************************)
(* The VAG decoder (utils/vag/decoder.rs).  A chunk is held by its flag,    *)
(* and a decoded group of 28 samples by the position of its chunk.          *)
(***************************************************************************)
MaxChunks == 3

\* SampleDecoder::next: the item and chunk_idx after the call.  `get(..)?`
\* returns None past the last chunk; chunk_idx is incremented before the
\* flag is looked at.
SampleDecoder_next(chunks, idx) ==
    IF idx >= Len(chunks) THEN [item |-> None, chunk_idx |-> idx]
    ELSE IF chunks[idx + 1].flags = "PlaybackEnd" THEN [item |-> None, chunk_idx |-> idx + 1]
    ELSE [item |-> Some(idx), chunk_idx |-> idx + 1]

\* The flags of the chunks of the vag files.
ChunkFlags == {"Nothing", "LoopEnd", "PlaybackEnd"}

VagChunks == SeqsUpTo({[flags |-> f] : f \in ChunkFlags}, MaxChunks)

DecInit ==
    /\ build = "release"
    /\ SfxIdle
    /\ MfaIdle
    /\ PackIdle
    /\ PakIdle
    /\ SlotIdle
    /\ SndIdle
    /\ EncIdle
    /\ dec_chunks \in VagChunks
    /\ dec_caller \in {"flatten", "direct"}
    /\ chunk_idx = 0
    /\ dec_out = <<>>
    /\ dec_nones = 0
    /\ dec_pc = "decoding"

\* One call of SampleDecoder::next and what the caller does with the item.
Advance ==
    LET r == SampleDecoder_next(dec_chunks, chunk_idx)
    IN /\ chunk_idx' = r.chunk_idx
       /\ IF r.item = None
          THEN dec_nones' = dec_nones + 1 /\ dec_out' = dec_out
          ELSE dec_nones' = dec_nones /\ dec_out' = Append(dec_out, r.item[1])
       /\ UNCHANGED <<sfx_vars, mfa_vars, pack_vars, pak_vars, slot_vars, snd_vars, enc_vars, dec_chunks, dec_caller, dec_pc>>

\* to_decoded and to_wav: `self.decoder().flatten().collect()`.  Flatten
\* stops advancing the decoder at its first None.
ToDecodedNext ==
    /\ dec_pc = "decoding"
    /\ dec_caller = "flatten"
    /\ dec_nones = 0
    /\ Advance

\* A user of the iterator that decoder() returns, who keeps advancing it
\* after None.
SampleDecoderNext ==
    /\ dec_pc = "decoding"
    /\ dec_caller = "direct"
    /\ dec_nones < MaxNones
    /\ Advance

DecNext ==
    \/ ToDecodedNext
    \/ SampleDecoderNext

DecSpec == DecInit /\ [][DecNext]_vars

(***************************************************************************)
(* PackInfo (utils/vag/mod.rs): one byte, held as a number of 0..255.  An   *)
(* i8 is held as a number of -128..127; the operators on i8 work on its     *)
(* bits.                                                                    *)
(***************************************************************************)
MaxPackValue == 17

\* `x as u8` and `x as i8`
as_u8(x) == x % 256
as_i8(x) == IF as_u8(x) >= 128 THEN as_u8(x) - 256 ELSE as_u8(x)

RECURSIVE BitAnd(_, _, _)
\* The and of the lowest n bits of a and b, both from 0 on.
BitAnd(a, b, n) ==
    IF n = 0 THEN 0
    ELSE ((a % 2) * (b % 2)) + 2 * BitAnd(a \div 2, b \div 2, n - 1)

RECURSIVE BitOr(_, _, _)
BitOr(a, b, n) ==
    IF n = 0 THEN 0
    ELSE (IF (a % 2) + (b % 2) > 0 THEN 1 ELSE 0) + 2 * BitOr(a \div 2, b \div 2, n - 1)

\* `x & y`, `x | y` and `x << 4` on i8: a shift drops the bits it moves out.
i8_and(x, y) == as_i8(BitAnd(as_u8(x), as_u8(y), 8))
i8_or(x, y) == as_i8(BitOr(as_u8(x), as_u8(y), 8))
i8_shl4(x) == as_i8(as_u8(x) * 16)

PackInfo_shift_factor(b) == as_i8(BitAnd(b, 15, 8))

PackInfo_predict(b) == as_i8(b \div 16)

PackInfo_update_shift_factor(b, value) ==
    as_u8(i8_or(i8_and(i8_shl4(PackInfo_predict(b)), as_i8(240)), i8_and(value, 15)))

\* A version of update_predict that does not put the shift factor back.
PackInfo_update_predict_only(b, value) ==
    as_u8(i8_and(i8_shl4(value), as_i8(240)))

PackInfo_update_predict(b, value) ==
    as_u8(i8_or(i8_and(i8_shl4(value), as_i8(240)), i8_and(PackInfo_shift_factor(b), 15)))

\* The values given to the setters: those of a nibble and some around them.
PackValues == (0 - 2)..MaxPackValue

PackInit ==
    /\ build = "release"
    /\ SfxIdle
    /\ MfaIdle
    /\ PakIdle
    /\ SlotIdle
    /\ SndIdle
    /\ EncIdle
    /\ DecIdle
    /\ pack_prev \in 0..255
    /\ pack_info = pack_prev
    /\ pack_val = 0
    /\ pack_op = "new"

UpdatePredict ==
    /\ pack_op # "idle"
    /\ \E value \in PackValues :
         /\ pack_val' = value
         /\ pack_info' = PackInfo_update_predict(pack_info, value)
    /\ pack_prev' = pack_info
    /\ pack_op' = "update_predict"
    /\ UNCHANGED <<sfx_vars, mfa_vars, pak_vars, slot_vars, snd_vars, enc_vars, dec_vars>>

UpdateShiftFactor ==
    /\ pack_op # "idle"
    /\ \E value \in PackValues :
         /\ pack_val' = value
         /\ pack_info' = PackInfo_update_shift_factor(pack_info, value)
    /\ pack_prev' = pack_info
    /\ pack_op' = "update_shift_factor"
    /\ UNCHANGED <<sfx_vars, mfa_vars, pak_vars, slot_vars, snd_vars, enc_vars, dec_vars>>

PackNext ==
    \/ UpdatePredict
    \/ UpdateShiftFactor

PackSpec == PackInit /\ [][PackNext]_vars

(***************************************************************************)
(* Banks::export_sounds_as_wav_mfaudio_ps2 (sfx/platforms/ps2.rs): the      *)
(* operation, which sends one PushFile message per sound and then Finish,   *)
(* and the helper thread it spawns, which receives and converts them.  A    *)
(* step of the operation is one advance of the banks iterator, one send or  *)
(* the join; a step of the helper is one try_recv that finds a message,     *)
(* with the conversion of the message.  A message is held by its number.    *)
(***************************************************************************)
\* The banks the iterator gives: a bank that is read and gets its directory,
\* with its number of sounds, or one for which either fails.
MfaBanks ==
    {[ok |-> TRUE, sounds |-> n] : n \in 0..MaxSounds} \cup {[ok |-> FALSE, sounds |-> 0]}

\* The number of sounds of the banks.
RECURSIVE TotalSounds(_)
TotalSounds(banks) ==
    IF banks = <<>> THEN 0 ELSE banks[1].sounds + TotalSounds(Tail(banks))

PushFile(id) == [kind |-> "PushFile", id |-> id]
Finish == [kind |-> "Finish", id |-> 0]

MfaInit ==
    /\ build = "release"
    /\ SfxIdle
    /\ PakIdle
    /\ SlotIdle
    /\ SndIdle
    /\ EncIdle
    /\ DecIdle
    /\ PackIdle
    /\ mfa_exe \in BOOLEAN
    /\ mfa_banks \in SeqsUpTo(MfaBanks, MaxBanks)
    /\ mfa_fail \in SUBSET (1..TotalSounds(mfa_banks))
    /\ mfa_pc = "check"
    /\ mfa_bank = 0
    /\ mfa_left = 0
    /\ mfa_sent = <<>>
    /\ mfa_queue = <<>>
    /\ mfa_sender = FALSE
    /\ mfa_worker = "none"
    /\ mfa_result = "none"
    /\ mfa_converted = <<>>
    /\ mfa_spawned = 0
    /\ mfa_joined = FALSE
    /\ mfa_ret = "none"

\* The check for MFAudio.exe, then channel() and thread::spawn.
SpawnWorker ==
    /\ mfa_pc = "check"
    /\ IF mfa_exe
       THEN /\ mfa_pc' = "banks"
            /\ mfa_sender' = TRUE
            /\ mfa_worker' = "running"
            /\ mfa_spawned' = mfa_spawned + 1
            /\ UNCHANGED mfa_ret
       ELSE /\ mfa_pc' = "returned"
            /\ mfa_ret' = "NoMFAudioFound"
            /\ UNCHANGED <<mfa_sender, mfa_worker, mfa_spawned>>
    /\ UNCHANGED <<sfx_vars, pak_vars, slot_vars, snd_vars, enc_vars, dec_vars, pack_vars, mfa_exe, mfa_banks, mfa_fail,
                   mfa_bank, mfa_left, mfa_sent, mfa_queue, mfa_result, mfa_converted, mfa_joined>>

\* `for bank in self.banks_iter()`: `bank?` and create_dir_all return the
\* error at once; the Sender and the JoinHandle are dropped.
NextBank ==
    /\ mfa_pc = "banks"
    /\ IF mfa_bank = Len(mfa_banks)
       THEN mfa_pc' = "finish" /\ UNCHANGED <<mfa_bank, mfa_left, mfa_sender, mfa_ret>>
       ELSE IF ~mfa_banks[mfa_bank + 1].ok
       THEN /\ mfa_pc' = "returned"
            /\ mfa_ret' = "Io"
            /\ mfa_sender' = FALSE
            /\ UNCHANGED <<mfa_bank, mfa_left>>
       ELSE /\ mfa_bank' = mfa_bank + 1
            /\ mfa_left' = mfa_banks[mfa_bank + 1].sounds
            /\ mfa_pc' = IF mfa_banks[mfa_bank + 1].sounds = 0 THEN "banks" ELSE "sending"
            /\ UNCHANGED <<mfa_sender, mfa_ret>>
    /\ UNCHANGED <<sfx_vars, pak_vars, slot_vars, snd_vars, enc_vars, dec_vars, pack_vars, mfa_exe, mfa_banks, mfa_fail,
                   mfa_sent, mfa_queue, mfa_worker, mfa_result, mfa_converted, mfa_spawned,
                   mfa_joined>>

\* The `else` of a send that failed: the Receiver is gone.  The handle is
\* joined only when is_finished() says the thread has ended.
SendFailed ==
    /\ mfa_pc' = "returned"
    /\ mfa_ret' = "WavWorkerThreadError"
    /\ mfa_joined' = (mfa_worker = "finished")
    /\ mfa_sender' = FALSE
    /\ UNCHANGED <<mfa_bank, mfa_left, mfa_sent, mfa_queue>>

\* sender.send(Action::PushFile(..)) for the next sound of the bank
SendPushFile ==
    /\ mfa_pc = "sending"
    /\ IF mfa_worker = "running"
       THEN /\ mfa_queue' = Append(mfa_queue, PushFile(Len(mfa_sent) + 1))
            /\ mfa_sent' = Append(mfa_sent, Len(mfa_sent) + 1)
            /\ mfa_left' = mfa_left - 1
            /\ mfa_pc' = IF mfa_left = 1 THEN "banks" ELSE "sending"
            /\ UNCHANGED <<mfa_bank, mfa_sender, mfa_joined, mfa_ret>>
       ELSE SendFailed
    /\ UNCHANGED <<sfx_vars, pak_vars, slot_vars, snd_vars, enc_vars, dec_vars, pack_vars, mfa_exe, mfa_banks, mfa_fail,
                   mfa_worker, mfa_result, mfa_converted, mfa_spawned>>

\* sender.send(Action::Finish)
SendFinish ==
    /\ mfa_pc = "finish"
    /\ IF mfa_worker = "running"
       THEN /\ mfa_queue' = Append(mfa_queue, Finish)
            /\ mfa_pc' = "join"
            /\ UNCHANGED <<mfa_bank, mfa_left, mfa_sent, mfa_sender, mfa_joined, mfa_ret>>
       ELSE SendFailed
    /\ UNCHANGED <<sfx_vars, pak_vars, slot_vars, snd_vars, enc_vars, dec_vars, pack_vars, mfa_exe, mfa_banks, mfa_fail,
                   mfa_worker, mfa_result, mfa_converted, mfa_spawned>>

\* `if let Err(e) = handle.join()`: it waits for the thread to end, returns
\* an error when the thread panicked, and Ok(()) whatever the closure
\* returned.
Join ==
    /\ mfa_pc = "join"
    /\ mfa_worker = "finished"
    /\ mfa_joined' = TRUE
    /\ mfa_ret' = IF mfa_result = "panic" THEN "WavWorkerThreadError" ELSE "Ok"
    /\ mfa_pc' = "returned"
    /\ mfa_sender' = FALSE
    /\ UNCHANGED <<sfx_vars, pak_vars, slot_vars, snd_vars, enc_vars, dec_vars, pack_vars, mfa_exe, mfa_banks, mfa_fail,
                   mfa_bank, mfa_left, mfa_sent, mfa_queue, mfa_worker, mfa_result, mfa_converted,
                   mfa_spawned>>

\* The helper: try_recv gives a message.  Finish ends the loop; PushFile is
\* converted, and an error of the conversion is returned from the closure
\* with `?`.
WorkerRecv ==
    /\ mfa_worker = "running"
    /\ mfa_queue # <<>>
    /\ LET action == Head(mfa_queue)
       IN IF action.kind = "Finish"
          THEN /\ mfa_worker' = "exiting"
               /\ mfa_result' = "Ok"
               /\ mfa_queue' = <<>>
               /\ UNCHANGED mfa_converted
          ELSE IF action.id \in mfa_fail
          THEN /\ mfa_worker' = "exiting"
               /\ mfa_result' = "Err"
               /\ mfa_queue' = <<>>
               /\ UNCHANGED mfa_converted
          ELSE /\ mfa_converted' = Append(mfa_converted, action.id)
               /\ mfa_queue' = Tail(mfa_queue)
               /\ UNCHANGED <<mfa_worker, mfa_result>>
    /\ UNCHANGED <<sfx_vars, pak_vars, slot_vars, snd_vars, enc_vars, dec_vars, pack_vars, mfa_exe, mfa_banks, mfa_fail,
                   mfa_pc, mfa_bank, mfa_left, mfa_sent, mfa_sender, mfa_spawned, mfa_joined,
                   mfa_ret>>

\* The helper: try_recv gives Disconnected, the channel being empty and the
\* Sender dropped, and the thread panics.
WorkerDisconnected ==
    /\ mfa_worker = "running"
    /\ mfa_queue = <<>>
    /\ ~mfa_sender
    /\ mfa_worker' = "exiting"
    /\ mfa_result' = "panic"
    /\ UNCHANGED <<sfx_vars, pak_vars, slot_vars, snd_vars, enc_vars, dec_vars, pack_vars, mfa_exe, mfa_banks, mfa_fail,
                   mfa_pc, mfa_bank, mfa_left, mfa_sent, mfa_queue, mfa_sender, mfa_converted,
                   mfa_spawned, mfa_joined, mfa_ret>>

\* The helper thread ends: is_finished() is true from here on.
WorkerExit ==
    /\ mfa_worker = "exiting"
    /\ mfa_worker' = "finished"
    /\ UNCHANGED <<sfx_vars, pak_vars, slot_vars, snd_vars, enc_vars, dec_vars, pack_vars, mfa_exe, mfa_banks, mfa_fail,
                   mfa_pc, mfa_bank, mfa_left, mfa_sent, mfa_queue, mfa_sender, mfa_result,
                   mfa_converted, mfa_spawned, mfa_joined, mfa_ret>>

MfaNext ==
    \/ SpawnWorker
    \/ NextBank
    \/ SendPushFile
    \/ SendFinish
    \/ Join
    \/ WorkerRecv
    \/ WorkerDisconnected
    \/ WorkerExit

MfaSpec == MfaInit /\ [][MfaNext]_vars

(***************************************************************************)
(* What the properties below speak of.                                      *)
(***************************************************************************)
\* The archive is one the iterator reads bank by bank: its first bank lies
\* at offset 0.
Aligned == archive.lead = 0

\* A run of import_banks or import_sounds has written chunks of the output.
Importing == output # <<>>

\* An import run on an archive that is read bank by bank has ended with Ok.
ImportDone == pc = "done" /\ Importing /\ Aligned

\* The byte position in the output of its k-th chunk.
OutOffset(k) == SumSeq([j \in 1..(k - 1) |-> output[j].len])

\* The k-th bank of the archive file as BanksIter reads it.
ReadBank(k) ==
    [header |-> BankHeader_read(archive.banks[k].header, Len(archive.banks[k].bytes)),
     bytes |-> archive.banks[k].bytes]

\* The k-th bank of the archive file as it lies in the file.
FileChunk(k) ==
    [len |-> BankHeader_SIZE + Len(archive.banks[k].bytes),
     header |-> archive.banks[k].header,
     bytes |-> archive.banks[k].bytes]

\* The value of a u32 is 2^32 larger than the integer that stands for it
\* when that integer is negative.
Wraps(x) == IF x < 0 THEN 1 ELSE 0

\* a.offset + a.length + BankHeader::SIZE == b.offset, in the integers.
ExactBackToBack(a, b) ==
    /\ Wraps(a.offset) + Wraps(a.length) = Wraps(b.offset)
    /\ a.offset + a.length + BankHeader_SIZE = b.offset

\* C1: in import_sounds, for a bank that has a replacement set, every sound
\* entry that is not in the set contributes to the new payload exactly the
\* bytes payload[o .. o + size] of the original bank, o and size being the
\* entry's offset and derived size as read from the original header.
C1_UnreplacedSoundsKeepTheirBytes ==
    (folders # EmptyDir /\ Aligned) =>
        \A k \in DOMAIN output :
            lookup[k].index \in DOMAIN folders =>
                LET orig == ReadBank(k)
                    files == folders[lookup[k].index]
                    new == output[k]
                IN \A j \in DOMAIN orig.header.sound_entries :
                       (j - 1) \notin DOMAIN files =>
                           LET o == orig.header.sound_entries[j].offset
                               size == orig.header.sound_entries[j].size
                               at == new.header.sound_entries[j].offset
                           IN SubSeq(new.bytes, at + 1, at + written[k].sizes[j])
                                  = SubSeq(orig.bytes, o + 1, o + size)

\* C2: after an import run that ended with Ok, every entry of the archive in
\* the lookup file on disk holds the offset and the payload length at which
\* its bank lies in the archive that was written.
C2_LookupFileMatchesWrittenArchive ==
    ImportDone =>
        \A k \in DOMAIN output :
            /\ lookup_file[indexes[k]].offset = OutOffset(k)
            /\ lookup_file[indexes[k]].length = Len(output[k].bytes)

\* C3: after an import run that ended with Ok, the rewritten entries of the
\* archive are back to back, each taken with the one that follows it in
\* offset order: offset + length + BankHeader::SIZE is the next offset.
C3_RewrittenEntriesBackToBack ==
    ImportDone =>
        \A k \in 1..(Len(indexes) - 1) :
            ExactBackToBack(lookup_table[indexes[k]], lookup_table[indexes[k + 1]])

NoReplacementRun ==
    /\ lookup # <<>>
    /\ \/ err = "NoFileFound"
       \/ dir # EmptyDir /\ \A k \in DOMAIN lookup : lookup[k].index \notin DOMAIN dir

Ended == pc \in {"done", "failed", "panic"}

\* No advance of the iterator has yielded an error.
ReadOk == \A i \in DOMAIN items : items[i] = "Ok"

\* The output is the archive, chunk for chunk.
OutputIsArchive == output = [k \in DOMAIN archive.banks |-> FileChunk(k)]

\* The output is the archive but for the unused entry slots of the headers,
\* which are zero.
OutputIsArchiveZeroSlack ==
    output = [k \in DOMAIN archive.banks |->
                 [FileChunk(k) EXCEPT !.header = [@ EXCEPT !.slack = 0]]]

\* Every entry of the archive has the offset and the length of the lookup file.
EntriesAsInFile ==
    \A k \in DOMAIN indexes : lookup_table[indexes[k]] = lookup_file[indexes[k]]

\* C5 as stated: if the input directory holds no replacement file for any
\* bank, import_banks completes and its output is byte-identical to the
\* original archive, every matching entry keeping its length and offset.
C5_NoReplacementReproducesArchive ==
    (NoReplacementRun /\ Ended /\ ReadOk) =>
        /\ pc = "done"
        /\ OutputIsArchive
        /\ EntriesAsInFile

\* C5, amended: with a directory that holds bank files but none for a bank of
\* the archive, an archive whose first bank lies at offset 0 and banks that
\* are all read without error, import_banks completes, its output is the
\* original archive with the unused header slots zeroed, and every matching
\* entry keeps its length and offset; with a directory that holds no bank
\* file it fails with NoFileFound and writes nothing.
C5_NoReplacementAmended ==
    /\ (NoReplacementRun /\ dir # EmptyDir /\ Aligned /\ Ended /\ ReadOk) =>
          /\ pc = "done"
          /\ OutputIsArchiveZeroSlack
          /\ EntriesAsInFile
    /\ (NoReplacementRun /\ dir = EmptyDir) =>
          /\ pc = "failed"
          /\ output = <<>>
          /\ lookup_table = lookup_file

\* Two banks with non-zero unused header slots went through import_banks with
\* a directory holding a file for another index only.
C5_Witness ==
    /\ NoReplacementRun
    /\ dir # EmptyDir
    /\ Aligned
    /\ pc = "done"
    /\ Len(output) = 2
    /\ archive.banks[1].header.slack # 0
    /\ archive.banks[1].header.padding # 0

\* C6 as stated: export_all_banks followed by import_banks with the export
\* directory writes an archive byte-identical to the source and leaves every
\* matching entry with its original offset and length.
C6_RoundTripIdentical ==
    (run = 2 /\ Ended /\ ReadOk) =>
        /\ pc = "done"
        /\ OutputIsArchive
        /\ EntriesAsInFile

\* C6, amended: for an archive whose first bank lies at offset 0 and whose
\* banks are all read without error, the round trip writes the source archive
\* with the unused header slots zeroed (the padding field and the used
\* entries are kept) and leaves every matching entry with its offset and
\* length.
C6_RoundTripAmended ==
    (run = 2 /\ Aligned /\ Ended /\ ReadOk) =>
        /\ pc = "done"
        /\ OutputIsArchiveZeroSlack
        /\ EntriesAsInFile

\* A round trip of two banks with non-zero padding and unused slots, whose
\* entries load had to sort.
C6_Witness ==
    /\ run = 2
    /\ Aligned
    /\ pc = "done"
    /\ Len(output) = 2
    /\ archive.banks[1].header.slack # 0
    /\ archive.banks[1].header.padding # 0
    /\ warns # <<>>

\* The entries of the archive in the lookup file, in table order, as
\* get_sorted_lookup_table enumerates them.
FileEntries ==
    LET idx == get_pak_idx_from_name(SFX_DEFAULT_PAK_NAMES, archive_name)
    IN IF idx = None THEN <<>> ELSE enumerate_matching(lookup_file, idx[1])

ExactSorted(l) == \A k \in 1..(Len(l) - 1) : ExactBackToBack(l[k].e, l[k + 1].e)

UnsortedWarnings == Cardinality({i \in DOMAIN warns : warns[i] = UnsortedWarning})

\* C7: load on an archive whose name resolves to a pak index with at least
\* one matching entry succeeds without warning when the matching entries are
\* back to back in table order, succeeds with exactly one unsorted warning
\* when they are not but are back to back once sorted ascending by offset,
\* and fails with UnsortedSfxBanks otherwise.
C7_LoadOutcomes ==
    LET fe == FileEntries
    IN (pc # "new" /\ fe # <<>>) =>
           IF ExactSorted(fe)
           THEN lookup # <<>> /\ UnsortedWarnings = 0
           ELSE IF ExactSorted(sort_by_offset(fe))
           THEN lookup # <<>> /\ UnsortedWarnings = 1
           ELSE lookup = <<>> /\ pc = "failed" /\ err = "UnsortedSfxBanks"

\* C8: after load the bank indexes are the dense enumeration 0..n-1 of the
\* matching entries in table order, each once; at every position of the
\* iteration the lookup entry, the retained table index and the index of the
\* yielded bank belong to the same entry of the table; and an import writes
\* the new offset and length of the bank of its k-th chunk into that entry
\* and leaves the entries it has not reached as they were.
C8_IndexesStayWithEntries ==
    lookup # <<>> =>
        LET fe == FileEntries
        IN /\ Len(lookup) = Len(fe)
           /\ Len(indexes) = Len(fe)
           /\ \A i2 \in 0..(Len(fe) - 1) :
                /\ Cardinality({k \in DOMAIN lookup : lookup[k].index = i2}) = 1
                /\ \A k \in DOMAIN lookup :
                     lookup[k].index = i2 =>
                         /\ indexes[k] = fe[i2 + 1].i1
                         /\ lookup[k].e = lookup_file[indexes[k]]
                         /\ lookup[k].e = fe[i2 + 1].e
           /\ (item.kind = "Ok" /\ lookup_idx >= 1) =>
                  item.bank.index = lookup[lookup_idx].index
           /\ \A k \in DOMAIN output :
                /\ written[k].index = indexes[k]
                /\ lookup_table[indexes[k]].offset = OutOffset(k)
                /\ lookup_table[indexes[k]].length = output[k].len - BankHeader_SIZE
           /\ \A p \in DOMAIN lookup_table :
                (\A k \in 1..lookup_idx : indexes[k] # p) => lookup_table[p] = lookup_file[p]

\* Load sorted two entries that lie around an entry of another archive, and
\* an import has written both banks.
C8_Witness ==
    /\ UnsortedWarnings = 1
    /\ Aligned
    /\ pc = "done"
    /\ Len(output) = 2
    /\ indexes = <<3, 1>>
    /\ lookup[1].index = 1

\* C9: a caller advancing BanksIter over n matched entries gets exactly one
\* item, Ok or Err, from each of the first n advances and None from every
\* later one; the size hint before an advance is the number of items still
\* to come, n before the first; an Err item counts like any other.
C9_IteratorYieldsEachEntryOnce ==
    /\ [](pc = "iterate" =>
            /\ Len(lookup) = count_entries_matching_pak_idx(lookup_file, 0)
            /\ Len(items) = lookup_idx
            /\ Len(items) <= Len(lookup)
            /\ BanksIter_size_hint(lookup, lookup_idx) = Len(lookup) - Len(items)
            /\ item.kind = "None" => Len(items) = Len(lookup)
            /\ \A i \in DOMAIN items : items[i] \in {"Ok", "Err(BinRw)", "Err(Io)"})
    /\ [][(pc = "iterate" /\ pc' = "iterate") =>
            IF Len(items) < Len(lookup)
            THEN Len(items') = Len(items) + 1 /\ item'.kind # "None"
            ELSE items' = items /\ item'.kind = "None"]_vars

\* The iterator over two entries gave an Err first, one more item, then None.
C9_Witness ==
    /\ pc = "iterate"
    /\ Len(lookup) = 2
    /\ Len(items) = 2
    /\ items[1] = "Err(BinRw)"
    /\ item.kind = "None"

\* a < b as u32 values.
u32_lt(a, b) == a # b /\ u32_le(a, b)

\* C10: for every table load accepts, the banks are yielded, and written by
\* an import, in strictly ascending order of their offset in the lookup file.
C10_AscendingOffsetOrder ==
    lookup # <<>> =>
        /\ \A k \in 1..(Len(indexes) - 1) :
             u32_lt(lookup_file[indexes[k]].offset, lookup_file[indexes[k + 1]].offset)
        /\ (item.kind = "Ok" /\ lookup_idx >= 1) =>
               item.bank.index = lookup[lookup_idx].index
        /\ \A k \in DOMAIN written : written[k].index = indexes[k]

(***************************************************************************)
(* BanksIter and the bank header (Spec).                                    *)
(***************************************************************************)
\* The iterator is advanced with its cursor at the start of a bank of the
\* file: the bank this advance reads.
ReadsBank == lookup_idx' = lookup_idx + 1 /\ reader >= 0 /\ reader < Len(archive.banks)

\* C14: a bank whose header has num_sounds above 400 is answered with
\* Err(BinRw) and never yielded; a bank that is yielded has at most 400 sound
\* entries, as many as the num_sounds of the header read; and when the header
\* parses and the read then fails, at the payload, the answer is Err(Io).
C14_OversizedHeaderIsNeverYielded ==
    [][ /\ item'.kind = "Ok" => Len(item'.bank.header.sound_entries) <= MAX_SOUND_ENTRIES
        /\ ReadsBank =>
              LET num_sounds == archive.banks[reader + 1].header.num_sounds
              IN /\ num_sounds > MAX_SOUND_ENTRIES => item'.kind = "Err(BinRw)"
                 /\ item'.kind = "Ok" =>
                       /\ num_sounds <= MAX_SOUND_ENTRIES
                       /\ Len(item'.bank.header.sound_entries) = num_sounds
                 /\ (num_sounds <= MAX_SOUND_ENTRIES /\ item'.kind # "Ok")
                       => item'.kind = "Err(Io)" ]_vars

\* The iterator has answered Err(BinRw) for a bank of 401 sounds of an
\* archive it reads bank by bank, after yielding a bank.
C14_Witness ==
    /\ Aligned
    /\ item.kind = "Err(BinRw)"
    /\ items = <<"Ok", "Err(BinRw)">>
    /\ archive.banks[2].header.num_sounds > MAX_SOUND_ENTRIES

(***************************************************************************)
(* The sounds of a bank (SndSpec).                                          *)
(***************************************************************************)
\* The sound entries of the bank as its header holds them on disk.
DiskSoundEntries == snd_file.header.sound_entries

\* The sound entries of the Bank in memory, with their sizes.
SoundEntries == snd_bank.header.sound_entries

RECURSIVE Concat(_)
\* The byte sequences of seqs, one after the other.
Concat(seqs) == IF seqs = <<>> THEN <<>> ELSE Head(seqs) \o Concat(Tail(seqs))

\* Entry k (from 1) has the size the claim gives it: a size is a number of
\* bytes, so it is not negative.
SizeAsDerived(k) ==
    /\ SoundEntries[k].size >= 0
    /\ SoundEntries[k].size =
          IF k < Len(DiskSoundEntries)
          THEN DiskSoundEntries[k + 1].offset - DiskSoundEntries[k].offset
          ELSE Len(snd_file.bytes) - DiskSoundEntries[k].offset

\* The k-th sound yielded (from 1) is the sound of entry k.
SoundOfEntry(k) ==
    /\ snd_out[k].index = k - 1
    /\ snd_out[k].sample_rate = DiskSoundEntries[k].sample_rate
    /\ snd_out[k].bytes =
          SubSeq(snd_file.bytes, DiskSoundEntries[k].offset + 1,
                 DiskSoundEntries[k].offset + SoundEntries[k].size)

\* The offsets on disk ascend from 0.
AscendingFromZero ==
    /\ DiskSoundEntries # <<>> => DiskSoundEntries[1].offset = 0
    /\ \A k \in 1..(Len(DiskSoundEntries) - 1) :
          DiskSoundEntries[k].offset <= DiskSoundEntries[k + 1].offset

\* C15: the header of a bank is read and gives every entry the size
\* next.offset - offset, the last one payload_len - offset; RawSounds then
\* yields the sounds of the entries in table order, with index, sample rate
\* and the bytes payload[offset .. offset + size], num_sounds of them when it
\* ends, and it does end; for offsets ascending from 0 the bytes yielded are,
\* one after the other, the whole payload.
C15_SizesPartitionThePayload ==
    /\ snd_pc # "panic"
    /\ snd_pc \in {"read", "ended"} =>
          /\ Len(SoundEntries) = Len(DiskSoundEntries)
          /\ \A k \in DOMAIN SoundEntries : SizeAsDerived(k)
          /\ Len(snd_out) = snd_index
          /\ \A k \in DOMAIN snd_out : SoundOfEntry(k)
    /\ snd_pc = "ended" =>
          /\ Len(snd_out) = snd_file.header.num_sounds
          /\ (AscendingFromZero /\ DiskSoundEntries # <<>>) =>
                Concat([k \in DOMAIN snd_out |-> snd_out[k].bytes]) = snd_file.bytes

(***************************************************************************)
(* PakNames properties (PakSpec).                                           *)
(***************************************************************************)
Feet == <<"F","E","E","T">>

\* The length of q without its whole trailing run of the characters 0, 1, 2.
KeptLen(q) ==
    CHOOSE k \in 0..Len(q) :
        /\ \A i \in (k + 1)..Len(q) : q[i] \in {"0", "1", "2"}
        /\ k = 0 \/ q[k] \notin {"0", "1", "2"}

\* The canonical form of a query: upper case, trailing run stripped.
Canonical(q) == [i \in 1..KeptLen(q) |-> to_uppercase_char(q[i])]

\* The position, from 0, of the first name of names equal to c.
PositionOf(names, c) ==
    IF \E i \in DOMAIN names : names[i] = c
    THEN Some((CHOOSE i \in DOMAIN names : names[i] = c /\ \A j \in 1..(i - 1) : names[j] # c) - 1)
    ELSE None

\* C11: on the built-in sets a lookup returns the position of the canonical
\* form of the query (upper case, whole trailing run of 0, 1, 2 stripped), and
\* None for the empty query and for a name that is not in the set; FEET, feet,
\* FEET01 and feet2 give Some(0) and SPC_PA gives Some(8) on the SFX set, TK
\* gives Some(16) on the Stream set.
C11_PakNamesCanonicalization ==
    (pak_pc = "looked" /\ pak_names \in {PakNames_sfx, PakNames_stream}) =>
        /\ pak_idx = IF name = <<>> THEN None ELSE PositionOf(pak_names, Canonical(name))
        /\ pak_names = PakNames_sfx =>
              /\ name \in {Feet, <<"f","e","e","t">>, <<"F","E","E","T","0","1">>,
                            <<"f","e","e","t","2">>} => pak_idx = Some(0)
              /\ name \in {<<"S","P","C","_","P","A">>, <<"S","P","c","_","P","a">>}
                    => pak_idx = Some(8)
              /\ name \in {<<>>, <<"U","n","k","n","o","w","n">>, <<"T","K">>}
                    => pak_idx = None
        /\ pak_names = PakNames_stream =>
              /\ name = <<"T","K">> => pak_idx = Some(16)
              /\ name \in {<<>>, Feet} => pak_idx = None

\* FEET01 has been looked up in the built-in SFX set and found at position 0.
C11_Witness ==
    /\ pak_pc = "looked"
    /\ pak_names = PakNames_sfx
    /\ name = <<"F","E","E","T","0","1">>
    /\ pak_idx = Some(0)

\* The two names are equal up to the case of their letters.
EqualsIgnoringCase(a, b) ==
    /\ Len(a) = Len(b)
    /\ \A i \in 1..Len(a) : to_uppercase_char(a[i]) = to_uppercase_char(b[i])

\* C12: in every name list, the built-in ones and the ones read from a file,
\* a query that equals a stored name up to case, once the query's trailing
\* 0, 1, 2 are stripped, is found at the position of that stored name.
C12_LookupIsCaseInsensitive ==
    pak_pc = "looked" =>
        \A i \in DOMAIN pak_names :
            EqualsIgnoringCase(trim_end_matches(name, {"0", "1", "2"}), pak_names[i])
                => pak_idx = Some(i - 1)

(***************************************************************************)
(* BankSlot properties (SlotSpec).                                          *)
(***************************************************************************)
\* update_buf_sizes has been called, and has returned or panicked.
UpdateCalled == slot_pc \in {"updated", "imported", "panic"}

\* The table as it was read, before the call.
SlotsBefore == BankSlot_from_reader(slot_file).slots

\* C13: after update_buf_sizes(sizes) with as many sizes as slots, every
\* slot has its new size, the first offset is the one it had, and every other
\* offset is the sum of the offset and size before it, a sum that fits in 32
\* bits; with another number of sizes no slot has changed.
C13_UpdateBufSizes ==
    UpdateCalled =>
        IF Len(sizes) = Len(SlotsBefore)
        THEN /\ Len(bank_slot) = Len(SlotsBefore)
             /\ \A i \in DOMAIN bank_slot : bank_slot[i].size = sizes[i]
             /\ bank_slot # <<>> => bank_slot[1].offset = SlotsBefore[1].offset
             /\ \A i \in 2..Len(bank_slot) :
                   /\ ~u32_add_overflows(bank_slot[i - 1].offset, bank_slot[i - 1].size)
                   /\ bank_slot[i].offset = bank_slot[i - 1].offset + bank_slot[i - 1].size
        ELSE bank_slot = SlotsBefore

(***************************************************************************)
(* VAG encoder properties (EncSpec).                                        *)
(***************************************************************************)
\* The encoder has been built and has returned None at least once: the chunk
\* sequence it produces is complete.
EncoderEnded == enc_pc = "encoding" /\ enc_nones >= 1

\* The chunks that hold samples, in the order they were yielded.
DataChunks == SelectSeq(enc_out, LAMBDA c : c.sample = "packed")

\* The number of chunks with the flag PlaybackEnd among the chunks yielded.
PlaybackEnds == Cardinality({k \in DOMAIN enc_out : enc_out[k].flags = "PlaybackEnd"})

\* C16: when the encoder is not looping and the input has a sample, the
\* complete chunk sequence ends with one terminating chunk, the only one,
\* that follows a data chunk and has the flag PlaybackEnd, the pack_infos of
\* that data chunk and zero sample bytes; nothing is yielded after it.
C16_TerminatingChunkWhenNotLooping ==
    (EncoderEnded /\ ~enc.use_loop /\ enc_wav.num_samples >= 1) =>
        /\ Len(enc_out) >= 2
        /\ PlaybackEnds = 1
        /\ LET last == enc_out[Len(enc_out)]
               before == enc_out[Len(enc_out) - 1]
           IN /\ last.flags = "PlaybackEnd"
              /\ last.sample = "zero"
              /\ before.sample = "packed"
              /\ last.pack_infos = before.pack_infos

\* The smallest multiple of 28 that is not below n.
NextMultipleOf28(n) == CHOOSE m \in n..(n + 27) : m % 28 = 0

\* C17: after construction the sample buffer has the length of the smallest
\* multiple of 28 that is not below the sample count n of the input, and an
\* encoder that stops at the end of its samples has then yielded ceil(n / 28)
\* data chunks: no sample of the input is left out.
C17_SamplesPaddedToMultipleOf28 ==
    enc_pc = "encoding" =>
        /\ enc.samples_len = NextMultipleOf28(enc_wav.num_samples)
        /\ (EncoderEnded /\ ~enc.iter_data.quit_at_the_next_iteration) =>
              Len(DataChunks) * 28 = NextMultipleOf28(enc_wav.num_samples)

\* The flag the claim gives the data chunk of index i that is not the last:
\* Nothing when not looping; when looping LoopEnd at loop_end, LoopStart at
\* loop_start, LoopRegion elsewhere.
FlagOfEarlierChunk(i) ==
    IF ~enc.use_loop THEN "Nothing"
    ELSE IF i = enc.loop_start_end[2] THEN "LoopEnd"
    ELSE IF i = enc.loop_start_end[1] THEN "LoopStart"
    ELSE "LoopRegion"

\* C18: for an input of at least one sample the last data chunk yielded has
\* the flag LoopLastBlock when not looping and LoopEnd when looping; the data
\* chunks before it have Nothing when not looping, and when looping
\* LoopRegion, or LoopStart at index loop_start, none of them being at index
\* loop_end: the chunk at loop_end is the last one yielded.
C18_EncoderFlags ==
    (EncoderEnded /\ enc_wav.num_samples >= 1) =>
        /\ DataChunks # <<>>
        /\ DataChunks[Len(DataChunks)].flags = IF enc.use_loop THEN "LoopEnd" ELSE "LoopLastBlock"
        /\ \A k \in 1..(Len(DataChunks) - 1) :
              /\ DataChunks[k].flags = FlagOfEarlierChunk(k - 1)
              /\ DataChunks[k].flags # "LoopEnd"

\* loop_offset(x) of the claim: x / 28 rounded up, plus one.
LoopOffset(x) == CHOOSE c \in 1..(x + 2) : 28 * (c - 2) < x /\ x <= 28 * (c - 1)

\* The loop bounds taken from the sample loop r; a difference of -1 is the
\* u32 4294967295 the subtraction wraps to.
LoopBoundsOf(r) == <<LoopOffset(r[1]) - 1, LoopOffset(r[2]) - 2>>

\* The sample loops of the smpl chunk of the wav.
Loops == enc_wav.smpl[1]

ChunksBeforePlaybackEnd ==
    LET ends == {k \in DOMAIN dec_chunks : dec_chunks[k].flags = "PlaybackEnd"}
    IN IF ends = {} THEN Len(dec_chunks)
       ELSE (CHOOSE k \in ends : \A j \in ends : k <= j) - 1

\* C20: the groups the decoder has yielded are those of the chunks before
\* the first PlaybackEnd chunk, one for each and in the order of the chunks,
\* so that it never goes back and never decodes a chunk after a PlaybackEnd
\* chunk; once it has returned None it has yielded all of them, and whatever
\* the number of further calls it yields no more.
C20_DecoderHaltsAtPlaybackEnd ==
    dec_pc = "decoding" =>
        /\ Len(dec_out) <= ChunksBeforePlaybackEnd
        /\ \A k \in DOMAIN dec_out : dec_out[k] = k - 1
        /\ dec_nones >= 1 => Len(dec_out) = ChunksBeforePlaybackEnd

(***************************************************************************)
(* PackInfo properties (PackSpec).                                          *)
(***************************************************************************)
\* The high and the low nibble of the byte b.
HighNibble(b) == CHOOSE h \in 0..15 : \E l \in 0..15 : b = (16 * h) + l
LowNibble(b) == CHOOSE l \in 0..15 : \E h \in 0..15 : b = (16 * h) + l

\* C21: predict() is the high nibble and shift_factor() the low nibble of
\* the byte; after update_predict(v) with v in 0..15 predict() is v and
\* shift_factor() is what it was before the call; after
\* update_shift_factor(v) shift_factor() is v and predict() is what it was.
C21_SettersPreserveTheOtherNibble ==
    /\ PackInfo_predict(pack_info) = HighNibble(pack_info)
    /\ PackInfo_shift_factor(pack_info) = LowNibble(pack_info)
    /\ (pack_op = "update_predict" /\ pack_val \in 0..15) =>
          /\ PackInfo_predict(pack_info) = pack_val
          /\ PackInfo_shift_factor(pack_info) = PackInfo_shift_factor(pack_prev)
    /\ (pack_op = "update_shift_factor" /\ pack_val \in 0..15) =>
          /\ PackInfo_shift_factor(pack_info) = pack_val
          /\ PackInfo_predict(pack_info) = PackInfo_predict(pack_prev)

\* update_predict(4) was called on the byte 0x2C and has left 0x4C.
C21_Witness ==
    /\ pack_op = "update_predict"
    /\ pack_val = 4
    /\ pack_prev = 44
    /\ pack_info = 76

(***************************************************************************)
(* The warning of import_sounds (Spec).                                     *)
(***************************************************************************)
\* The files that a run of import_sounds has imported: those of the folder
\* of a bank it has written, for the sound entries that bank has.
ImportedFiles ==
    {folders[lookup[k].index][j] :
        <<k, j>> \in {kj \in (DOMAIN output) \X (0..MaxSounds) :
                         /\ lookup[kj[1]].index \in DOMAIN folders
                         /\ kj[2] \in DOMAIN folders[lookup[kj[1]].index]
                         /\ kj[2] < output[kj[1]].header.num_sounds}}

\* A run of import_sounds with SoundType::PcWav has ended with Ok.
PcWavImportOk == pc = "done" /\ folders # EmptyDir /\ sound_type = "PcWav"

\* C22: after a run of import_sounds with PcWav that ended with Ok, the
\* warning about wav files that are not mono has been logged if and only if
\* one of the imported files has a channel count other than 1, in whatever
\* order the files were imported.
C22_NotMonoWarningIffSomeFileNotMono ==
    PcWavImportOk =>
        ((NotMonoWarning \in Range(warns)) <=> (\E f \in ImportedFiles : f.channels # 1))

(***************************************************************************)
(* The export through MFAudio (MfaSpec).                                    *)
(***************************************************************************)
\* The operation has returned after it had spawned the helper.
MfaReturned == mfa_pc = "returned" /\ mfa_spawned >= 1

\* C23: when the conversion of a message has failed in the helper, the
\* operation does not return Ok, whatever the order of the sends of the
\* operation and the steps of the helper, a failure after the send of Finish
\* included.
C23_HelperFailureIsReturned ==
    (MfaReturned /\ mfa_result = "Err") => mfa_ret # "Ok"

\* C24: one helper thread is spawned; it converts the messages sent in the
\* order they were sent and each once; when the operation has returned, with
\* Ok or with an error, the helper has ended and was joined; and when it has
\* returned Ok every message sent was converted.
C24_OneHelperJoinedOnEveryReturn ==
    /\ mfa_pc \notin {"idle", "check"} => (mfa_spawned = 1 \/ mfa_ret = "NoMFAudioFound")
    /\ Len(mfa_converted) <= Len(mfa_sent)
    /\ mfa_converted = SubSeq(mfa_sent, 1, Len(mfa_converted))
    /\ MfaReturned =>
          /\ mfa_worker = "finished"
          /\ mfa_joined
          /\ mfa_ret = "Ok" => mfa_converted = mfa_sent

(***************************************************************************)
(* Imports on malformed input (Spec).                                       *)
(***************************************************************************)
\* The k-th chunk of the output of import_banks is a file of the directory.
Replaced(k) == dir # EmptyDir /\ lookup[k].index \in DOMAIN dir

\* A run of import_banks or import_sounds has panicked: load, the other
\* operation that can panic, does so before it has the entries of the archive.
ImportPanicked == pc = "panic" /\ lookup # <<>>

\* C25: no import panics, and for every bank that import_banks has replaced
\* by a file, of whatever length, the entry has the length of the file less
\* the 4804 bytes of the header, which is not negative: an import on
\* malformed input ends with an error or with these values.
C25_ImportNeverPanicsNorWraps ==
    /\ ~ImportPanicked
    /\ \A k \in DOMAIN output :
          Replaced(k) =>
              /\ lookup_table[indexes[k]].length = dir[lookup[k].index].len - BankHeader_SIZE
              /\ dir[lookup[k].index].len - BankHeader_SIZE >= 0

(***************************************************************************)
(* The running offset of the imports (Spec).                                *)
(***************************************************************************)
\* C26: while import_banks or import_sounds runs, and when it has ended
\* without a panic, the running offset is the number of bytes written to the
\* output so far, 0 at the start; and the entry updated for every bank
\* written has for offset the byte position of the bank in the output and for
\* length the number of bytes written for the bank after the 4804 bytes of
\* its header, a number that is not negative.
C26_RunningOffsetIsBytesWritten ==
    pc # "panic" =>
        /\ offset = OutOffset(Len(output) + 1)
        /\ \A k \in DOMAIN output :
              /\ lookup_table[indexes[k]].offset = OutOffset(k)
              /\ lookup_table[indexes[k]].length = output[k].len - BankHeader_SIZE
              /\ lookup_table[indexes[k]].length >= 0
              /\ ~Replaced(k) => lookup_table[indexes[k]].length = Len(output[k].bytes)

(***************************************************************************)
(* The cursor of BanksIter (Spec).  reader = r >= 0 says that the cursor is *)
(* behind the first r banks of the file, the first of which lies at         *)
(* archive.lead; reader = -1 that it is somewhere else.                     *)
(***************************************************************************)
\* The file position of the cursor while it is known.
CursorPos == archive.lead + SumSeq([j \in 1..reader |-> FileChunk(j).len])

\* The sum over the entries before the next one of length + 4804.
LengthsRead == SumSeq([j \in 1..lookup_idx |-> lookup[j].e.length + BankHeader_SIZE])

\* The archive is loaded and the iterator has an entry left to read.
NextEntryToRead == lookup # <<>> /\ lookup_idx < Len(lookup)

\* An entry of the archive has the offset 0.
SmallestOffsetIsZero == \E k \in DOMAIN lookup : lookup[k].e.offset = 0

\* Within an invocation the cursor is moved by reads only: once it is away
\* from the banks of the file no advance brings it back, and an advance moves
\* it by one bank at most.
CursorMovedByReadsOnly ==
    pc' # "new" =>
        /\ reader < 0 => reader' < 0
        /\ (reader >= 0 /\ reader' >= 0) => reader' \in {reader, reader + 1}

\* C27: the iterator never seeks.  The first header is read at position 0
\* of the file, which is the offset of the first entry exactly when the
\* smallest offset of the archive's entries is 0; as long as no advance has
\* failed the header of the next entry is read behind the banks read so far,
\* at the sum of length + 4804 over the entries before it, and with a
\* smallest offset of 0 that position is the offset of the entry; after an
\* advance that failed the next ones go on from where the cursor was left.
C27_BanksIterNeverSeeks ==
    /\ [](NextEntryToRead =>
            /\ lookup_idx = 0 => ((reader = 0 /\ CursorPos = 0) <=> SmallestOffsetIsZero)
            /\ lookup_idx = 0 => (SmallestOffsetIsZero <=> lookup[1].e.offset = 0)
            /\ (ReadOk /\ reader >= 0) => (reader = lookup_idx /\ CursorPos = LengthsRead)
            /\ (ReadOk /\ SmallestOffsetIsZero) =>
                  (reader >= 0 /\ CursorPos = lookup[lookup_idx + 1].e.offset)
            /\ ~ReadOk => reader < 0)
    /\ [][CursorMovedByReadsOnly]_vars

\* The first of two banks was read and the second is about to be, at the
\* position 4804 + length that is its offset.
C27_Witness ==
    /\ Len(lookup) = 2
    /\ lookup_idx = 1
    /\ items = <<"Ok">>
    /\ reader = 1
    /\ lookup[2].e.offset = BankHeader_SIZE + lookup[1].e.length
    /\ lookup[2].e.offset = CursorPos

(***************************************************************************)
(* What the imports leave alone (Spec).                                     *)
(***************************************************************************)
\* Sound j (from 1) of the k-th bank written by import_sounds was replaced
\* by a file.
SoundReplaced(k, j) ==
    /\ lookup[k].index \in DOMAIN folders
    /\ (j - 1) \in DOMAIN folders[lookup[k].index]

\* C28: import_banks and import_sounds leave the lookup table with its
\* number of entries, with the pak index and the padding of every entry, and
\* with every entry that is not one of the archive's, entries of another pak
\* index among them, as it was; and in the headers import_sounds writes every
\* sound entry has the loop_offset and the headroom it was read with, and the
\* sample_rate too unless it was replaced by a wav file.
C28_ImportFrame ==
    /\ Len(lookup_table) = Len(lookup_file)
    /\ \A i \in DOMAIN lookup_table :
          /\ lookup_table[i].index = lookup_file[i].index
          /\ lookup_table[i].padding = lookup_file[i].padding
          /\ i \notin Range(indexes) => lookup_table[i] = lookup_file[i]
    /\ (folders # EmptyDir /\ Aligned) =>
          \A k \in DOMAIN output :
              LET orig == ReadBank(k).header.sound_entries
                  new == output[k].header.sound_entries
              IN /\ Len(new) = Len(orig)
                 /\ \A j \in DOMAIN new :
                       /\ new[j].loop_offset = orig[j].loop_offset
                       /\ new[j].headroom = orig[j].headroom
                       /\ (~SoundReplaced(k, j) \/ sound_type = "Raw") =>
                             new[j].sample_rate = orig[j].sample_rate

\* A Raw import has ended with Ok in which a sound was replaced by a file
\* with another sample rate and the length of the bank's entry has changed,
\* the table holding an entry of another pak index as well.
C28_Witness ==
    /\ pc = "done"
    /\ folders # EmptyDir
    /\ Aligned
    /\ sound_type = "Raw"
    /\ \E i \in DOMAIN lookup_table : i \notin Range(indexes)
    /\ \E k \in DOMAIN output :
         /\ lookup_table[indexes[k]].length # lookup_file[indexes[k]].length
         /\ \E j \in DOMAIN output[k].header.sound_entries :
               /\ SoundReplaced(k, j)
               /\ folders[lookup[k].index][j - 1].sample_rate
                      # output[k].header.sound_entries[j].sample_rate

(***************************************************************************)
(* An import that fails at a bank (Spec).                                   *)
(***************************************************************************)
\* A pass of the loop of import_banks or import_sounds returns an error.
ImportFails == pc \in {"import_banks", "import_sounds"} /\ pc' = "failed"

\* The pass failed on the replacement file, after the bank itself was read.
ReplacementFailed == item'.kind = "Ok"

\* What every failing pass leaves: the error of the failing read, the output
\* with the banks before the failing one and nothing more, the entries of
\* these banks with their new offset and length, the entries of the banks
\* behind the failing one and the lookup file as they were.
FailedImportLeaves ==
    LET k == lookup_idx'
    IN /\ err' = (IF IsErr(item') THEN ErrOf(item') ELSE "Io")
       /\ output' = output
       /\ Len(output) = k - 1
       /\ \A j \in 1..(k - 1) :
             /\ lookup_table'[indexes[j]].offset = OutOffset(j)
             /\ lookup_table'[indexes[j]].length = output[j].len - BankHeader_SIZE
       /\ \A j \in (k + 1)..Len(indexes) :
             lookup_table'[indexes[j]] = lookup_file[indexes[j]]
       /\ lookup_table'[indexes[k]].length = lookup_file[indexes[k]].length
       /\ lookup_file' = lookup_file

\* C29 as stated: a failure at bank k of import_banks or import_sounds, be it
\* of the bank's read or of a replacement file, returns the error after the
\* banks before k were written; the output holds these banks only, the
\* lookup table has the new offset and length of their entries and the new
\* offset of the entry of bank k, and the lookup file is untouched.
C29_FailureLeavesNewOffsetOfFailingBank ==
    [][ImportFails =>
          /\ FailedImportLeaves
          /\ lookup_table'[indexes[lookup_idx']].offset = OutOffset(lookup_idx')]_vars

\* C29, amended: the entry of bank k has its new offset only when the failure
\* is that of a replacement file, which is read after the offset is stored;
\* when bank k itself cannot be read, its entry is as in the lookup file.
C29_FailureLeavesPrefix ==
    [][ImportFails =>
          /\ FailedImportLeaves
          /\ lookup_table'[indexes[lookup_idx']].offset =
                IF ReplacementFailed THEN OutOffset(lookup_idx')
                ELSE lookup_file[indexes[lookup_idx']].offset]_vars

\* import_banks has failed on the unreadable replacement of the second bank,
\* after it replaced the first by a file of another length: the entry of the
\* second bank has a new offset and its old length.
C29_Witness ==
    /\ pc = "failed"
    /\ err = "Io"
    /\ item.kind = "Ok"
    /\ lookup_idx = 2
    /\ Len(output) = 1
    /\ dir # EmptyDir
    /\ lookup[1].index \in DOMAIN dir
    /\ lookup[2].index \in DOMAIN dir
    /\ dir[lookup[2].index] = UnreadableBnk
    /\ lookup_table[indexes[2]].offset = OutOffset(2)
    /\ lookup_table[indexes[2]].offset # lookup_file[indexes[2]].offset
    /\ lookup_table[indexes[2]].length = lookup_file[indexes[2]].length
    /\ lookup_table[indexes[1]].length # lookup_file[indexes[1]].length

(***************************************************************************)
(* The loop mode of the encoder (EncSpec).                                  *)
(***************************************************************************)
LoopFlags == {"LoopStart", "LoopRegion", "LoopEnd"}

\* No chunk yielded has a loop flag.
FreeOfLoopFlags == \A k \in DOMAIN enc_out : enc_out[k].flags \notin LoopFlags

\* The encoder was built with FromInput from a wav without a smpl chunk.
FromInputWithoutSmpl ==
    enc_pc = "encoding" /\ enc_mode = "FromInput" /\ enc_wav.smpl = None

\* C30: the encoder loops exactly for ForceLoop and FromInput, with or
\* without a smpl chunk in the wav; with FromInput and no smpl chunk the loop
\* bounds are (0, usize::MAX) and, of the complete sequence of chunks, the
\* final one has LoopEnd, chunk 0 when it is not the final one LoopStart, the
\* chunks between LoopRegion; for an input of at least one sample the
\* sequence is free of loop flags exactly for ForceNoLoop; import_wav of the
\* PS2 sound import encodes with FromInput.
C30_LoopModeSelection ==
    /\ enc_pc = "encoding" => (enc.use_loop <=> enc_mode \in {"ForceLoop", "FromInput"})
    /\ FromInputWithoutSmpl => enc.loop_start_end = <<0, usize_MAX>>
    /\ (FromInputWithoutSmpl /\ EncoderEnded) =>
          \A k \in DOMAIN enc_out :
              enc_out[k].flags = IF k = Len(enc_out) THEN "LoopEnd"
                                 ELSE IF k = 1 THEN "LoopStart"
                                 ELSE "LoopRegion"
    /\ (EncoderEnded /\ enc_wav.num_samples >= 1) =>
          (FreeOfLoopFlags <=> enc_mode = "ForceNoLoop")
    /\ enc_caller = "import_wav" => enc_mode = "FromInput"

====
